---------------------------- MODULE Spec2Model ----------------------------
(***************************************************************************)
(* Indexing pipeline of granola-mcp: the insight extractor                 *)
(* (src/src/indexing/insight-extractor.ts), the embedding generator        *)
(* (src/src/index.ts, embedder part), the vector store's write operations  *)
(* (src/src/indexing/vector-store.ts) and the index / sync commands        *)
(* (src/src/index.ts).                                                     *)
(*                                                                         *)
(* Texts are sequences of one-character strings, so that substring() and   *)
(* length are what the code computes; the fixed marker texts of the code   *)
(* are one-element sequences holding the whole marker, which no input text *)
(* equals.                                                                 *)
(***************************************************************************)
EXTENDS Integers, Sequences, FiniteSets, TLC

\* ------------------------------------------------------------------ bounds
MaxOutputSize == 4   \* themes + evidence items + key quotes of one model output
MaxNotesOver  == 1   \* notes lengths go up to the fallback cut + MaxNotesOver
MaxDocs       == 2   \* document directories of the export directory
MaxTexts      == 3   \* texts of one generateEmbeddings call
MaxBatchSize  == 2   \* its batchSize option goes from 1 to MaxBatchSize
MaxRows       == 3   \* rows of a table the read operations see
MaxLimit      == 2   \* the limit option goes from 1 to MaxLimit

\* --------------------------------------------------------- small helpers
Min(a, b) == IF a < b THEN a ELSE b

RECURSIVE Pow2(_)
Pow2(n) == IF n = 0 THEN 1 ELSE 2 * Pow2(n - 1)

\* String.prototype.substring(0, n) on a text
Substring(s, n) == SubSeq(s, 1, Min(n, Len(s)))

\* String.prototype.includes on an error message, a sequence of tokens
Includes(msg, token) == \E i \in DOMAIN msg : msg[i] = token

IsPrefix(p, s) == Len(p) <= Len(s) /\ SubSeq(s, 1, Len(p)) = p

\* a text of n characters
TextOfLen(n) == [i \in 1..n |-> "n"]

\* ---------------------------------------------------------- theme registry
\* THEMES.map(t => t.id)
getThemeNames ==
  <<"pain-points", "feature-requests", "positive-feedback", "pricing",
    "competition", "workflow", "decisions", "questions">>

\* themeNames.includes(x)
ThemeNamesInclude(x) == \E i \in DOMAIN getThemeNames : getThemeNames[i] = x

\* ------------------------------------------------- the model's JSON output
\* A value the JSON may leave out (undefined / null) is Undefined; a text the
\* validation only tests for emptiness is "" or a non-empty string.
Undefined == "<undefined>"

\* evidence items as they arrive: a bare string, a {text, speaker} object, null
EvString(t)    == [form |-> "string", text |-> t, speaker |-> Undefined]
EvObject(t, s) == [form |-> "object", text |-> t, speaker |-> s]
EvNull         == [form |-> "null", text |-> "", speaker |-> Undefined]

EvidenceItems ==
  { EvString(""), EvString("q"), EvObject("q", "me"), EvObject("q", "host"),
    EvObject("", "participant"), EvNull }

RawThemeNames == {"pain-points", "pricing", "not-a-theme"}

\* a theme of the output; hasEvidence = FALSE when the evidence key is missing
RawTheme(n, has, ev) == [name |-> n, hasEvidence |-> has, evidence |-> ev]

\* a key quote of the output
QObject(t, s, th) == [form |-> "object", text |-> t, speaker |-> s, theme |-> th]
QNull             == [form |-> "null", text |-> "", speaker |-> Undefined, theme |-> Undefined]

QuoteItems ==
  { QObject("k", "me", "pricing"), QObject("", "participant", Undefined),
    QObject("k", "host", "not-a-theme"), QNull }

RawSummaries == { <<>>, <<"s">> }

\* themes costing c: one for the theme and one per evidence item
ThemesOfCost(c) ==
  { RawTheme(n, TRUE, ev) : n \in RawThemeNames, ev \in [1..(c - 1) -> EvidenceItems] }
  \cup (IF c = 1 THEN { RawTheme(n, FALSE, <<>>) : n \in RawThemeNames } ELSE {})

RECURSIVE ThemeListsOfCost(_)
ThemeListsOfCost(c) ==
  IF c = 0 THEN { <<>> }
  ELSE UNION { LET heads == ThemesOfCost(a)
                   tails == ThemeListsOfCost(c - a)
               IN  { <<t>> \o rest : t \in heads, rest \in tails }
               : a \in 1..c }

\* every output of at most MaxOutputSize themes, evidence items and key quotes
ParsedOutputs(size) ==
  UNION { [insights_summary : RawSummaries,
           themes : ThemeListsOfCost(ct),
           key_quotes : [1..cq -> QuoteItems]]
          : <<ct, cq>> \in { x \in (0..size) \X (0..size) : x[1] + x[2] <= size } }

\* ----------------------------------------------- extractInsights: validation
NoInsightsExtracted == <<"No insights extracted">>
ExtractionFailed    == <<"Extraction failed">>

validateSpeaker(s) == IF s = "me" \/ s = "participant" THEN s ELSE "participant"

\* mutant: the filter without the registry test
ThemeKept_AnyName(t) ==
  /\ t.name # ""
  /\ t.hasEvidence
  /\ Len(t.evidence) > 0

\* t.name && themeNames.includes(t.name) && t.evidence?.length > 0
ThemeKept(t) ==
  /\ t.name # ""
  /\ ThemeNamesInclude(t.name)
  /\ t.hasEvidence
  /\ Len(t.evidence) > 0

\* the object an evidence item is turned into
NormalizeEvidence(e) ==
  IF e.form = "string"
  THEN [text |-> e.text, speaker |-> "participant"]
  ELSE [text |-> e.text, speaker |-> validateSpeaker(e.speaker)]

EvidenceKept(e) == e.text # ""

\* { ...t, evidence: t.evidence.map(...).filter(e => e.text.length > 0) }
CleanTheme(t) ==
  [name |-> t.name,
   evidence |-> SelectSeq([i \in DOMAIN t.evidence |-> NormalizeEvidence(t.evidence[i])],
                          EvidenceKept)]

\* mutant: the theme reference is kept as the model gave it
CleanQuote_KeepTheme(q) ==
  [text |-> q.text, speaker |-> validateSpeaker(q.speaker), theme |-> q.theme]

CleanQuote(q) ==
  [text |-> q.text,
   speaker |-> validateSpeaker(q.speaker),
   theme |-> IF q.theme # Undefined /\ q.theme # "" /\ ThemeNamesInclude(q.theme)
             THEN q.theme ELSE Undefined]

QuoteKept(q) == q.text # ""

\* reading .text of a null item raises a TypeError inside the try block
ValidationThrows(parsed) ==
  \/ \E i \in DOMAIN parsed.themes :
        /\ ThemeKept(parsed.themes[i])
        /\ \E j \in DOMAIN parsed.themes[i].evidence :
              parsed.themes[i].evidence[j].form = "null"
  \/ \E i \in DOMAIN parsed.key_quotes : parsed.key_quotes[i].form = "null"

CleanThemes(themes) ==
  LET kept == SelectSeq(themes, ThemeKept)
  IN  [i \in DOMAIN kept |-> CleanTheme(kept[i])]

CleanQuotes(quotes) ==
  SelectSeq([i \in DOMAIN quotes |-> CleanQuote(quotes[i])], QuoteKept)

\* the object returned at the end of the try block
Validate(parsed) ==
  [insights_summary |-> IF parsed.insights_summary = <<>> THEN NoInsightsExtracted
                        ELSE parsed.insights_summary,
   themes |-> CleanThemes(parsed.themes),
   key_quotes |-> CleanQuotes(parsed.key_quotes)]

SummaryFallbackLen == 200

\* mutant: the fallback summary is the whole notes text, not its first 200 characters
Degraded_Uncut(notes) ==
  [insights_summary |-> IF notes = <<>> THEN ExtractionFailed ELSE notes,
   themes |-> <<>>,
   key_quotes |-> <<>>]

\* the minimal insights returned after the retry loop
Degraded(notes) ==
  [insights_summary |-> IF Substring(notes, SummaryFallbackLen) = <<>> THEN ExtractionFailed
                        ELSE Substring(notes, SummaryFallbackLen),
   themes |-> <<>>,
   key_quotes |-> <<>>]

\* -------------------------------------------------------------- the state
VARIABLES
  hasKey,        \* process.env.OPENAI_API_KEY is set
  va_pc,         \* validation of one model output: "input" | "done"
  va_in,         \* the parsed model output
  va_out,        \* [threw, value]: what the validation expression gives
  ex_pc,         \* extractInsights: "idle" | "request" | "wait" | "returned" | "thrown"
  ex_notes,      \* its notes argument
  ex_attempt,    \* the loop variable attempt
  ex_lastError,  \* the variable lastError
  ex_log,        \* requests issued and backoff timers set, in order
  ex_errors,     \* per attempt made, the error caught (NoError when none)
  ex_response,   \* the parsed content of the last response that parsed
  ex_result,     \* the value returned
  em_pc,         \* generateEmbedding: "idle" | "request" | "wait" | "returned" | "thrown"
  em_attempt,
  em_lastError,
  em_log,
  em_errors,
  em_response,   \* the embedding of the last successful response
  em_result,     \* the vector returned
  em_thrown,     \* the error thrown to the caller
  fs,            \* the export directory: per document directory, what it holds
  tableNames,    \* the tables of the store at vectors.lance
  documentsRows, \* the rows of the documents table
  chunksRows,    \* the rows of the chunks table
  run_pc,        \* the index / sync command: its position
  run_cmd,       \* "index" | "sync"
  run_skip,      \* options.skipExtraction
  run_i,         \* the directory the loop is at
  indexedDocs,   \* the array indexedDocs
  allChunks,     \* the array allChunks
  run_existing,  \* existingTables of initializeTables
  run_log,       \* loop iterations and store calls of the run, in order
  run_prev,      \* the tables as they were when the run started
  run_again,     \* the run repeats a completed index run with extraction skipped
  ge_pc,         \* generateEmbeddings: "idle" | "loop" | "returned" | "thrown"
  ge_texts,      \* its texts argument
  ge_batchSize,  \* options.batchSize
  ge_i,          \* the loop variable i
  ge_results,    \* the array results
  ge_log,        \* the inputs submitted and the delays taken, in order
  db,            \* vector-store.ts: the module variable db, "null" | "connected"
  rd_pc,         \* a read operation of the store: "idle" | "done"
  rd_op,         \* which one
  rd_args,       \* its arguments
  rd_fetched,    \* the rows its query gave
  rd_failed,     \* the step that threw: "none" | "connect" | "openTable" | "toArray" | "decode"
  rd_out,        \* [kind, value]: the list or map entries returned, or the throw
  tr_pc,         \* one document from export to get_transcript:
                 \*   "start" | "exported" | "indexed" | "searched" | "got"
  tr_doc,        \* the document at the source: [id, title, transcript]
  tr_cmd,        \* the command that exported it and its options: [name, rawOnly, format]
  tr_dir,        \* its directory in the export folder: [name, files]
  tr_row,        \* its row in the documents table: [id, title, has_transcript]
  tr_flag,       \* full_transcript_available of its search hit
  tr_result,     \* what get_transcript returned: [kind, from]
  eb_pc,         \* extractInsightsBatch: "idle" | "loop" | "await" | "delay" | "returned" | "thrown"
  eb_docs,       \* its documents argument: the ids, in order
  eb_concurrency,\* options.concurrency after the default
  eb_i,          \* the loop variable i
  eb_calls,      \* per document: "waiting" | "inflight" | "done" | "rejected"
  eb_insights,   \* per document: what its extractInsights call returned
  eb_results,    \* the Map results: its entries [id, insights] in insertion order
  eb_log,        \* the delays taken
  sg_db,         \* vector-store.ts: the module variable db, 0 for null, else the connection
  sg_opened,     \* the connections lancedb.connect has opened so far
  sg_pc,         \* per caller of getDatabase: "idle" | "connecting" | "returned" | "rejected"
  sg_returned,   \* the connections getDatabase has returned
  sg_client,     \* per module, its variable openaiClient: 0 for null, else the client
  sg_built,      \* per module, the clients constructed so far
  sg_clients     \* per module, the clients getOpenAI has returned

vaVars == <<va_pc, va_in, va_out>>
exVars == <<ex_pc, ex_notes, ex_attempt, ex_lastError, ex_log, ex_errors, ex_response, ex_result>>
emVars == <<em_pc, em_attempt, em_lastError, em_log, em_errors, em_response, em_result, em_thrown>>
storeVars == <<tableNames, documentsRows, chunksRows>>
runVars == <<run_pc, run_cmd, run_skip, run_i, indexedDocs, allChunks, run_existing, run_log,
             run_prev, run_again>>
geVars == <<ge_pc, ge_texts, ge_batchSize, ge_i, ge_results, ge_log>>
rdVars == <<db, rd_pc, rd_op, rd_args, rd_fetched, rd_failed, rd_out>>
trVars == <<tr_pc, tr_doc, tr_cmd, tr_dir, tr_row, tr_flag, tr_result>>
ebVars == <<eb_pc, eb_docs, eb_concurrency, eb_i, eb_calls, eb_insights, eb_results, eb_log>>
sgVars == <<sg_db, sg_opened, sg_pc, sg_returned, sg_client, sg_built, sg_clients>>
moreVars == <<ebVars, sgVars>>
readVars == <<geVars, rdVars, trVars>>
vars   == <<hasKey, moreVars, readVars, vaVars, exVars, emVars, fs, storeVars, runVars>>

\* ------------------------------------------------------------- the errors
\* An error is its message, a sequence of tokens; NoError is no error.
NoError == <<>>

MissingKeyError == <<"OPENAI_API_KEY environment variable is required">>
NoContentError  == <<"No content in OpenAI response">>
JsonSyntaxError == <<"Unexpected", "token", "in", "JSON">>
NullTypeError   == <<"Cannot", "read", "properties", "of", "null">>
NoDataTypeError == <<"Cannot", "read", "properties", "of", "undefined">>

\* what the provider's client may throw
ProviderErrors ==
  { <<"Connection", "error.">>, <<"Request", "timeout">>, <<"read", "ECONNRESET">>,
    <<"429", "rate limit", "exceeded">>, <<"401", "Incorrect", "API", "key">> }

\* lastError.message?.includes(...) || ...
isRetryable(msg) ==
  \/ Includes(msg, "Connection")
  \/ Includes(msg, "timeout")
  \/ Includes(msg, "ECONNRESET")
  \/ Includes(msg, "rate limit")

\* Math.pow(2, attempt) * 1000
BackoffBaseMs == 1000
BackoffDelay(attempt) == Pow2(attempt) * BackoffBaseMs

Request(n) == [ev |-> "request", n |-> n]
Wait(ms)   == [ev |-> "wait", n |-> ms]

\* ------------------------------------------------- validation as a function
NoInsights == [insights_summary |-> <<>>, themes |-> <<>>, key_quotes |-> <<>>]

VaInit ==
  /\ va_pc = "input"
  /\ va_in \in ParsedOutputs(MaxOutputSize)
  /\ va_out = [threw |-> FALSE, value |-> NoInsights]

VaIdle ==
  /\ va_pc = "off"
  /\ va_in = NoInsights
  /\ va_out = [threw |-> FALSE, value |-> NoInsights]

\* insight-extractor.ts 133-157 on one parsed output
ValidateStep ==
  /\ va_pc = "input"
  /\ va_pc' = "done"
  /\ va_out' = IF ValidationThrows(va_in)
               THEN [threw |-> TRUE, value |-> NoInsights]
               ELSE [threw |-> FALSE, value |-> Validate(va_in)]
  /\ UNCHANGED <<hasKey, moreVars, readVars, va_in, exVars, emVars, fs, storeVars, runVars>>

\* ------------------------------------------------------- extractInsights
maxRetries == 3

NotesInputs ==
  { TextOfLen(n) : n \in {0, 1} \cup ((SummaryFallbackLen - 1)..(SummaryFallbackLen + MaxNotesOver)) }

\* the model outputs the call and run specifications draw from
SampleOutputs ==
  { [insights_summary |-> <<"s">>,
     themes |-> << RawTheme("pain-points", TRUE, <<EvString("q"), EvObject("q", "me")>>) >>,
     key_quotes |-> << QObject("k", "me", "pricing") >>],
    [insights_summary |-> <<>>,
     themes |-> << RawTheme("pricing", TRUE, <<EvObject("", "participant")>>) >>,
     key_quotes |-> <<>>],
    [insights_summary |-> <<"s">>,
     themes |-> << RawTheme("pain-points", TRUE, <<EvString("q")>>),
                   RawTheme("pain-points", TRUE, <<EvObject("q", "host")>>) >>,
     key_quotes |-> << QObject("k", "host", "not-a-theme"),
                       QObject("", "participant", Undefined) >>],
    [insights_summary |-> <<"s">>,
     themes |-> << RawTheme("not-a-theme", TRUE, <<EvString("q")>>) >>,
     key_quotes |-> <<>>],
    [insights_summary |-> <<"s">>,
     themes |-> << RawTheme("pricing", TRUE, <<EvNull>>) >>,
     key_quotes |-> <<>>],
    [insights_summary |-> <<"s">>,
     themes |-> << RawTheme("pain-points", TRUE, <<EvString("q")>>),
                   RawTheme("pricing", TRUE, <<EvObject("q", "me")>>) >>,
     key_quotes |-> << QObject("k", "me", "pricing"), QObject("k", "me", Undefined) >>] }

\* what one chat.completions.create request may come to
ExtractOutcomes ==
  { [kind |-> "error", message |-> m, parsed |-> NoInsights] : m \in ProviderErrors }
  \cup { [kind |-> k, message |-> NoError, parsed |-> NoInsights] : k \in {"empty", "badjson"} }
  \cup { [kind |-> "json", message |-> NoError, parsed |-> p] : p \in SampleOutputs }

\* the error raised inside the try block of one attempt, NoError when it returns
TryError(o) ==
  IF o.kind = "error" THEN o.message
  ELSE IF o.kind = "empty" THEN NoContentError
  ELSE IF o.kind = "badjson" THEN JsonSyntaxError
  ELSE IF ValidationThrows(o.parsed) THEN NullTypeError
  ELSE NoError

\* mutant: every error is retried while attempts remain
ExtractRetries_AnyError(err, attempt) == attempt < maxRetries

\* mutant: one retry only
ExtractRetries_OneRetry(err, attempt) == isRetryable(err) /\ attempt < maxRetries - 1

\* isRetryable && attempt < maxRetries
ExtractRetries(err, attempt) == isRetryable(err) /\ attempt < maxRetries

\* mutant: the catch block rethrows what it does not retry, as the embedder does
ExtractCatch_Rethrow(err, attempt) ==
  IF isRetryable(err) /\ attempt < maxRetries THEN "wait" ELSE "thrown"

\* the catch block: continue after the backoff, or break to the fallback return
ExtractCatch(err, attempt) ==
  IF ExtractRetries(err, attempt) THEN "wait" ELSE "returned"

ExIdle ==
  /\ ex_pc = "idle"
  /\ ex_notes = <<>>
  /\ ex_attempt = 0
  /\ ex_lastError = NoError
  /\ ex_log = <<>>
  /\ ex_errors = <<>>
  /\ ex_response = NoInsights
  /\ ex_result = NoInsights

\* mutant: the client is built without testing the key
ExtractCall_KeyUnchecked ==
  /\ ex_pc = "idle"
  /\ em_pc = "idle"
  /\ \E notes \in NotesInputs : ex_notes' = notes
  /\ ex_pc' = "request"
  /\ ex_attempt' = 1
  /\ ex_lastError' = NoError
  /\ UNCHANGED <<hasKey, moreVars, readVars, vaVars, ex_log, ex_errors, ex_response, ex_result, emVars,
                 fs, storeVars, runVars>>

\* the call, up to the first request: getOpenAI() is outside the try block
ExtractCall ==
  /\ ex_pc = "idle"
  /\ em_pc = "idle"
  /\ \E notes \in NotesInputs : ex_notes' = notes
  /\ IF hasKey
     THEN /\ ex_pc' = "request"
          /\ ex_attempt' = 1
          /\ ex_lastError' = NoError
     ELSE /\ ex_pc' = "thrown"
          /\ ex_attempt' = 0
          /\ ex_lastError' = MissingKeyError
  /\ UNCHANGED <<hasKey, moreVars, readVars, vaVars, ex_log, ex_errors, ex_response, ex_result, emVars,
                 fs, storeVars, runVars>>

\* one iteration of the retry loop: the request, its response, the catch block
ExtractAttempt ==
  /\ ex_pc = "request"
  /\ \E o \in ExtractOutcomes :
       LET err == TryError(o) IN
       /\ ex_errors' = Append(ex_errors, err)
       /\ ex_response' = IF o.kind = "json" THEN o.parsed ELSE ex_response
       /\ IF err = NoError
          THEN /\ ex_result' = Validate(o.parsed)
               /\ ex_pc' = "returned"
               /\ ex_log' = Append(ex_log, Request(ex_attempt))
               /\ UNCHANGED ex_lastError
          ELSE /\ ex_lastError' = err
               /\ ex_pc' = ExtractCatch(err, ex_attempt)
               /\ ex_log' = IF ex_pc' = "wait"
                            THEN ex_log \o <<Request(ex_attempt), Wait(BackoffDelay(ex_attempt))>>
                            ELSE Append(ex_log, Request(ex_attempt))
               /\ ex_result' = IF ex_pc' = "returned" THEN Degraded(ex_notes) ELSE ex_result
  /\ UNCHANGED <<hasKey, moreVars, readVars, vaVars, ex_notes, ex_attempt, emVars, fs, storeVars, runVars>>

\* the backoff timer fires: continue with attempt + 1
ExtractBackoff ==
  /\ ex_pc = "wait"
  /\ ex_pc' = "request"
  /\ ex_attempt' = ex_attempt + 1
  /\ UNCHANGED <<hasKey, moreVars, readVars, vaVars, ex_notes, ex_lastError, ex_log, ex_errors, ex_response,
                 ex_result, emVars, fs, storeVars, runVars>>

\* ------------------------------------------------------ generateEmbedding
embedMaxRetries == 3

Vectors  == {"v1", "v2"}
NoVector == "<none>"

\* what one embeddings.create request may come to
EmbedOutcomes ==
  { [kind |-> "error", message |-> m, vector |-> NoVector] : m \in ProviderErrors }
  \cup { [kind |-> "nodata", message |-> NoError, vector |-> NoVector] }
  \cup { [kind |-> "ok", message |-> NoError, vector |-> v] : v \in Vectors }

\* the error raised inside the try block: response.data[0].embedding
EmbedTryError(o) ==
  IF o.kind = "error" THEN o.message
  ELSE IF o.kind = "nodata" THEN NoDataTypeError
  ELSE NoError

EmbedRetries(err, attempt) == isRetryable(err) /\ attempt < embedMaxRetries

\* mutant: the catch block ends the call with a return, as the extractor does
EmbedCatch_Return(err, attempt) ==
  IF isRetryable(err) /\ attempt < embedMaxRetries THEN "wait" ELSE "returned"

\* the catch block: continue after the backoff, or throw error
EmbedCatch(err, attempt) ==
  IF EmbedRetries(err, attempt) THEN "wait" ELSE "thrown"

EmIdle ==
  /\ em_pc = "idle"
  /\ em_attempt = 0
  /\ em_lastError = NoError
  /\ em_log = <<>>
  /\ em_errors = <<>>
  /\ em_response = NoVector
  /\ em_result = NoVector
  /\ em_thrown = NoError

\* the call, up to the first request; a caller embeds on its own or, as the index
\* command does (index.ts 370-397), once extractInsights has returned
EmbedCall ==
  /\ em_pc = "idle"
  /\ ex_pc \in {"idle", "returned"}
  /\ IF hasKey
     THEN /\ em_pc' = "request"
          /\ em_attempt' = 1
          /\ em_thrown' = NoError
     ELSE /\ em_pc' = "thrown"
          /\ em_attempt' = 0
          /\ em_thrown' = MissingKeyError
  /\ UNCHANGED <<hasKey, moreVars, readVars, vaVars, exVars, em_lastError, em_log, em_errors, em_response,
                 em_result, fs, storeVars, runVars>>

EmbedAttempt ==
  /\ em_pc = "request"
  /\ \E o \in EmbedOutcomes :
       LET err == EmbedTryError(o) IN
       /\ em_errors' = Append(em_errors, err)
       /\ em_response' = o.vector
       /\ IF err = NoError
          THEN /\ em_result' = o.vector
               /\ em_pc' = "returned"
               /\ em_log' = Append(em_log, Request(em_attempt))
               /\ UNCHANGED <<em_lastError, em_thrown>>
          ELSE /\ em_lastError' = err
               /\ em_pc' = EmbedCatch(err, em_attempt)
               /\ em_log' = IF em_pc' = "wait"
                            THEN em_log \o <<Request(em_attempt), Wait(BackoffDelay(em_attempt))>>
                            ELSE Append(em_log, Request(em_attempt))
               /\ em_thrown' = IF em_pc' = "thrown" THEN err ELSE em_thrown
               /\ em_result' = IF em_pc' = "returned" THEN o.vector ELSE em_result
  /\ UNCHANGED <<hasKey, moreVars, readVars, vaVars, exVars, em_attempt, fs, storeVars, runVars>>

EmbedBackoff ==
  /\ em_pc = "wait"
  /\ em_pc' = "request"
  /\ em_attempt' = em_attempt + 1
  /\ UNCHANGED <<hasKey, moreVars, readVars, vaVars, exVars, em_lastError, em_log, em_errors, em_response,
                 em_result, em_thrown, fs, storeVars, runVars>>

\* ------------------------------------------------- the export directory
\* Directory i of the listing is named after the title of document DocIdOf(i).
DocDirs == 1..MaxDocs
DocIdOf(i) == <<"d1", "d2", "d3", "d4", "d5">>[i]

\* what a document directory holds:
\*   "nodoc"   no document.json
\*   "empty"   a document.json, no notes text and no transcript
\*   "notes"   a document.json and notes.md with text
\*   "stale"   the export of the first document under another title: the export
\*             names a directory after the title and removes no directory
\*             (index.ts 85-86, 666-667), so its document.json holds that id
DirKinds == {"nodoc", "empty", "notes", "stale"}

\* docJson.id of the document.json of directory i
DirDocId(i, k) == IF k = "stale" THEN DocIdOf(1) ELSE DocIdOf(i)

NotesOfKind(k) == IF k \in {"notes", "stale"} THEN TextOfLen(3) ELSE <<>>

\* the export directories: the first directory is no copy of itself
ExportDirs == { f \in [DocDirs -> DirKinds] : f[1] # "stale" }

\* ------------------------------------------------ the per-document insights
NoSummaryAvailable == <<"No summary available">>
DefaultSummaryLen == 500

\* index.ts 362-366: the insights a document starts with
DefaultInsights(notes) ==
  [insights_summary |-> IF Substring(notes, DefaultSummaryLen) = <<>> THEN NoSummaryAvailable
                        ELSE Substring(notes, DefaultSummaryLen),
   themes |-> <<>>,
   key_quotes |-> <<>>]

\* the model output the runs draw from: two themes of one name, two key quotes
RunOutput ==
  [insights_summary |-> <<"s">>,
   themes |-> << RawTheme("pain-points", TRUE, <<EvString("q")>>),
                 RawTheme("pain-points", TRUE, <<EvObject("q", "host")>>) >>,
   key_quotes |-> << QObject("k", "host", "not-a-theme"), QObject("k", "me", "pricing") >>]

\* what extractInsights can return when called with the key set
ExtractResults(notes) == { Validate(RunOutput), Degraded(notes) }

\* index.ts 368-376: if (!options.skipExtraction && (transcript || notes))
RunInsights(notes, skip) ==
  IF ~skip /\ notes # <<>> THEN ExtractResults(notes) ELSE { DefaultInsights(notes) }

\* ------------------------------------------------------- records built
IndexStr(i) == <<"0", "1", "2", "3", "4", "5", "6", "7">>[i + 1]

\* a chunk id: the pieces of the template string, in order
SummaryChunk(id) ==
  [id |-> <<id, "_summary">>, document_id |-> id, type |-> "summary", theme_name |-> Undefined]

ThemeChunk(id, t) ==
  [id |-> <<id, "_theme_", t.name>>, document_id |-> id, type |-> "theme", theme_name |-> t.name]

\* the index command copies quote.theme into theme_name, the sync command does not
QuoteChunk(cmd, id, i, q) ==
  [id |-> <<id, "_quote_", IndexStr(i)>>, document_id |-> id, type |-> "quote",
   theme_name |-> IF cmd = "index" THEN q.theme ELSE Undefined]

\* the chunks one document adds to allChunks, in the order they are pushed:
\* the index command pushes a summary chunk first (index.ts 403-409), the sync
\* command pushes none (index.ts 802-805)
DocChunks(cmd, id, insights) ==
  (IF cmd = "index" THEN << SummaryChunk(id) >> ELSE <<>>)
  \o [i \in DOMAIN insights.themes |-> ThemeChunk(id, insights.themes[i])]
  \o [i \in DOMAIN insights.key_quotes |-> QuoteChunk(cmd, id, i - 1, insights.key_quotes[i])]

IndexedDoc(id, notes, insights) ==
  [id |-> id, granola_summary |-> notes, themes |-> insights.themes,
   key_quotes |-> insights.key_quotes, insights_summary |-> insights.insights_summary]

\* the embeddings one document asks for: summary, themes, key quotes
EmbedCount(insights) == 1 + Len(insights.themes) + Len(insights.key_quotes)

\* the chunks pushed before the k-th embedding of the document
ChunksBeforeEmbed(cmd, id, insights, k) ==
  LET all == DocChunks(cmd, id, insights)
      n   == IF cmd = "index" THEN k - 1 ELSE k - 2
  IN  SubSeq(all, 1, IF n < 0 THEN 0 ELSE n)

\* vector-store.ts 86-94: theme_name: chunk.theme_name || ''
ChunkRow(c) == [c EXCEPT !.theme_name = IF c.theme_name = Undefined THEN "" ELSE c.theme_name]

\* vector-store.ts 62-73
DocumentRow(d) == d

\* ------------------------------------------------- index and sync commands
RunIdle ==
  /\ run_pc = "idle"
  /\ run_cmd = "index"
  /\ run_skip = FALSE
  /\ run_i = 1
  /\ indexedDocs = <<>>
  /\ allChunks = <<>>
  /\ run_existing = {}
  /\ run_log = <<>>
  /\ run_prev = << {}, <<>>, <<>> >>
  /\ run_again = FALSE

StoreEmpty ==
  /\ tableNames = {}
  /\ documentsRows = <<>>
  /\ chunksRows = <<>>

\* "aborted": the run ended at the key check, in the export phase or in the loop;
\* "store_failed": it ended in a bulk write
RunOver == run_pc \in {"idle", "done", "aborted", "store_failed"}

\* a command starts in a new process: its arrays are empty
RunBegins(cmd, skip) ==
  /\ RunOver
  /\ run_cmd' = cmd
  /\ run_skip' = skip
  /\ run_i' = 1
  /\ indexedDocs' = <<>>
  /\ allChunks' = <<>>
  /\ run_existing' = {}
  /\ run_log' = <<>>
  /\ run_prev' = <<tableNames, documentsRows, chunksRows>>
  /\ run_again' = (cmd = "index" /\ skip /\ run_pc = "done" /\ run_cmd = "index" /\ run_skip)

\* index.ts 291-313: the key check, the listing
IndexStart ==
  /\ \E skip \in BOOLEAN : RunBegins("index", skip)
  /\ run_pc' = IF hasKey THEN "loop" ELSE "aborted"
  /\ UNCHANGED <<hasKey, moreVars, readVars, vaVars, exVars, emVars, fs, storeVars>>

\* index.ts 623-632: the key check of the sync command
SyncStart ==
  /\ \E skip \in BOOLEAN : RunBegins("sync", skip)
  /\ run_pc' = IF hasKey THEN "export" ELSE "aborted"
  /\ UNCHANGED <<hasKey, moreVars, readVars, vaVars, exVars, emVars, fs, storeVars>>

\* what the export can leave in directory i: what it held (no document of the
\* listing has this title), or a document.json and notes.md written anew
ExportedKinds(i, k) == {k, "empty", "notes"} \cup (IF i = 1 THEN {} ELSE {"stale"})

\* index.ts 634-698: the export phase, one directory at a time; a request to the
\* Granola API or a write that throws ends the command in its catch
ExportDocument ==
  /\ run_pc = "export"
  /\ run_i <= MaxDocs
  /\ \/ /\ \E k \in ExportedKinds(run_i, fs[run_i]) : fs' = [fs EXCEPT ![run_i] = k]
        /\ run_i' = run_i + 1
        /\ UNCHANGED run_pc
     \/ /\ run_pc' = "aborted"
        /\ UNCHANGED <<fs, run_i>>
  /\ UNCHANGED <<hasKey, moreVars, readVars, vaVars, exVars, emVars, storeVars, run_cmd, run_skip, indexedDocs,
                 allChunks, run_existing, run_log, run_prev, run_again>>

\* index.ts 699-708: the export is over, the index phase starts with initializeTables
ExportDone ==
  /\ run_pc = "export"
  /\ run_i > MaxDocs
  /\ run_pc' = "init_list"
  /\ run_i' = 1
  /\ UNCHANGED <<hasKey, moreVars, readVars, vaVars, exVars, emVars, fs, storeVars, run_cmd, run_skip, indexedDocs,
                 allChunks, run_existing, run_log, run_prev, run_again>>

\* one iteration of the per-document loop (index.ts 314-455, 720-846)
ProcessDocument ==
  /\ run_pc = "loop"
  /\ run_i <= MaxDocs
  /\ LET kind  == fs[run_i]
         id    == DirDocId(run_i, kind)
         notes == NotesOfKind(kind)
     IN
     \/ /\ kind = "nodoc"                           \* continue
        /\ run_i' = run_i + 1
        /\ run_log' = Append(run_log, "doc")
        /\ UNCHANGED <<run_pc, indexedDocs, allChunks>>
     \/ /\ kind # "nodoc"                          \* readFile or JSON.parse throws
        /\ run_pc' = "aborted"
        /\ UNCHANGED <<run_i, run_log, indexedDocs, allChunks>>
     \/ /\ kind # "nodoc"
        /\ \E insights \in RunInsights(notes, run_skip) :
             \/ /\ indexedDocs' = Append(indexedDocs, IndexedDoc(id, notes, insights))
                /\ allChunks' = allChunks \o DocChunks(run_cmd, id, insights)
                /\ run_i' = run_i + 1
                /\ run_log' = Append(run_log, "doc")
                /\ UNCHANGED run_pc
             \/ \E k \in 1..EmbedCount(insights) :  \* the k-th generateEmbedding throws
                  /\ indexedDocs' = IF k > 1
                                    THEN Append(indexedDocs, IndexedDoc(id, notes, insights))
                                    ELSE indexedDocs
                  /\ allChunks' = allChunks \o ChunksBeforeEmbed(run_cmd, id, insights, k)
                  /\ run_pc' = "aborted"
                  /\ UNCHANGED <<run_i, run_log>>
  /\ UNCHANGED <<hasKey, moreVars, readVars, vaVars, exVars, emVars, fs, storeVars, run_cmd, run_skip,
                 run_existing, run_prev, run_again>>

\* the loop is over: the index command goes on to initializeTables, the sync
\* command, which called it before the loop, to storeDocuments
LoopExit ==
  /\ run_pc = "loop"
  /\ run_i > MaxDocs
  /\ run_pc' = IF run_cmd = "index" THEN "init_list" ELSE "store_docs"
  /\ UNCHANGED <<hasKey, moreVars, readVars, vaVars, exVars, emVars, fs, storeVars, run_cmd, run_skip, run_i,
                 indexedDocs, allChunks, run_existing, run_log, run_prev, run_again>>

\* The store is the triple <<tableNames, documentsRows, chunksRows>>.
\* dropTable(DOCUMENTS_TABLE) when existingTables includes it
DropDocuments(existing, st) ==
  IF "documents" \in existing THEN << st[1] \ {"documents"}, <<>>, st[3] >> ELSE st

\* mutant: the chunks table is never dropped
DropChunks_Never(existing, st) == st

\* dropTable(CHUNKS_TABLE) when existingTables includes it
DropChunks(existing, st) ==
  IF "chunks" \in existing THEN << st[1] \ {"chunks"}, st[2], <<>> >> ELSE st

\* one whole call of initializeTables on a store
initializeTables(st) == DropChunks(st[1], DropDocuments(st[1], st))

\* initializeTables (vector-store.ts 39-50): existingTables = await tableNames()
InitializeTablesList ==
  /\ run_pc = "init_list"
  /\ run_existing' = tableNames
  /\ run_log' = Append(run_log, "tableNames")
  /\ run_pc' = "init_drop_documents"
  /\ UNCHANGED <<hasKey, moreVars, readVars, vaVars, exVars, emVars, fs, storeVars, run_cmd, run_skip, run_i,
                 indexedDocs, allChunks, run_prev, run_again>>

\* if (existingTables.includes(DOCUMENTS_TABLE)) await dropTable(DOCUMENTS_TABLE)
InitializeTablesDropDocuments ==
  /\ run_pc = "init_drop_documents"
  /\ LET st == DropDocuments(run_existing, <<tableNames, documentsRows, chunksRows>>)
     IN  /\ tableNames' = st[1]
         /\ documentsRows' = st[2]
         /\ chunksRows' = st[3]
  /\ run_log' = IF "documents" \in run_existing
                THEN Append(run_log, "dropTable documents") ELSE run_log
  /\ run_pc' = "init_drop_chunks"
  /\ UNCHANGED <<hasKey, moreVars, readVars, vaVars, exVars, emVars, fs, run_cmd, run_skip, run_i,
                 indexedDocs, allChunks, run_existing, run_prev, run_again>>

\* if (existingTables.includes(CHUNKS_TABLE)) await dropTable(CHUNKS_TABLE);
\* then the index command stores, the sync command starts its loop
InitializeTablesDropChunks ==
  /\ run_pc = "init_drop_chunks"
  /\ LET st == DropChunks(run_existing, <<tableNames, documentsRows, chunksRows>>)
     IN  /\ tableNames' = st[1]
         /\ documentsRows' = st[2]
         /\ chunksRows' = st[3]
  /\ run_log' = IF "chunks" \in run_existing
                THEN Append(run_log, "dropTable chunks") ELSE run_log
  /\ run_pc' = IF run_cmd = "index" THEN "store_docs" ELSE "loop"
  /\ UNCHANGED <<hasKey, moreVars, readVars, vaVars, exVars, emVars, fs, run_cmd, run_skip, run_i,
                 indexedDocs, allChunks, run_existing, run_prev, run_again>>

\* mutant: the rows are added to the rows the table held when the run started
StoreDocuments_Append ==
  /\ run_pc = "store_docs"
  /\ tableNames' = tableNames \cup {"documents"}
  /\ documentsRows' = run_prev[2] \o [i \in DOMAIN indexedDocs |-> DocumentRow(indexedDocs[i])]
  /\ run_log' = Append(run_log, "createTable documents")
  /\ run_pc' = "store_chunks"
  /\ UNCHANGED <<hasKey, moreVars, readVars, vaVars, exVars, emVars, fs, chunksRows, run_cmd, run_skip, run_i,
                 indexedDocs, allChunks, run_existing, run_prev, run_again>>

\* storeDocuments (vector-store.ts 53-77): createTable(..., { mode: 'overwrite' }).
\* The library documents createTable for a non-empty array of records: given none it
\* either creates a table without rows or rejects, and the command's catch exits.
StoreDocuments ==
  /\ run_pc = "store_docs"
  /\ \/ /\ tableNames' = tableNames \cup {"documents"}
        /\ documentsRows' = [i \in DOMAIN indexedDocs |-> DocumentRow(indexedDocs[i])]
        /\ run_log' = Append(run_log, "createTable documents")
        /\ run_pc' = "store_chunks"
     \/ /\ indexedDocs = <<>>
        /\ run_pc' = "store_failed"
        /\ UNCHANGED <<tableNames, documentsRows, run_log>>
  /\ UNCHANGED <<hasKey, moreVars, readVars, vaVars, exVars, emVars, fs, chunksRows, run_cmd, run_skip, run_i,
                 indexedDocs, allChunks, run_existing, run_prev, run_again>>

\* storeChunks (vector-store.ts 80-98)
StoreChunks ==
  /\ run_pc = "store_chunks"
  /\ \/ /\ tableNames' = tableNames \cup {"chunks"}
        /\ chunksRows' = [i \in DOMAIN allChunks |-> ChunkRow(allChunks[i])]
        /\ run_log' = Append(run_log, "createTable chunks")
        /\ run_pc' = "done"
     \/ /\ allChunks = <<>>
        /\ run_pc' = "store_failed"
        /\ UNCHANGED <<tableNames, chunksRows, run_log>>
  /\ UNCHANGED <<hasKey, moreVars, readVars, vaVars, exVars, emVars, fs, documentsRows, run_cmd, run_skip, run_i,
                 indexedDocs, allChunks, run_existing, run_prev, run_again>>

\* ------------------------------------------------------ generateEmbeddings
\* A text given to the embedder is [first, rest, len]: first names its characters
\* up to the cap, rest those after the cap ("" when it has none), len its length.
EmbedTextCap == 8000

ShortText(a)   == [first |-> a, rest |-> "", len |-> 3]
LongText(a, b) == [first |-> a, rest |-> b, len |-> EmbedTextCap + 1]

\* two short texts and two long ones that differ after the cap only
TextSamples == { ShortText("a"), ShortText("b"), LongText("c", "x"), LongText("c", "y") }

\* t.substring(0, 8000)
Substring8000(t) ==
  IF t.len > EmbedTextCap THEN [first |-> t.first, rest |-> "", len |-> EmbedTextCap] ELSE t

\* the vector the provider computes for a submitted text
EmbeddingOf(t) == << "embedding", t.first, t.rest >>

\* texts.slice(i, i + batchSize), i counted from 0
Slice(texts, i, n) == SubSeq(texts, i + 1, Min(i + n, Len(texts)))

Perms(n) == { f \in [1..n -> 1..n] : \A a, b \in 1..n : a # b => f[a] # f[b] }

\* response.data for an input, its items in the order f: item k of the input
\* carries index k - 1
ResponseData(input, f) ==
  [k \in DOMAIN input |-> [index |-> f[k] - 1, embedding |-> EmbeddingOf(input[f[k]])]]

\* mutant: the items are taken in the order the provider returned them
SortByIndex_Unsorted(data) == data

\* response.data.sort((a, b) => a.index - b.index)
SortByIndex(data) ==
  [k \in DOMAIN data |-> data[CHOOSE j \in DOMAIN data : data[j].index = k - 1]]

BatchDelayMs == 100

GeIdle ==
  /\ ge_pc = "idle"
  /\ ge_texts = <<>>
  /\ ge_batchSize = 1
  /\ ge_i = 0
  /\ ge_results = <<>>
  /\ ge_log = <<>>

\* index.ts 930-940: getOpenAI() throws without the key
EmbeddingsCall ==
  /\ ge_pc \in {"idle", "returned", "thrown"}
  /\ \E n \in 0..MaxTexts : ge_texts' \in [1..n -> TextSamples]
  /\ ge_batchSize' \in 1..MaxBatchSize
  /\ ge_i' = 0
  /\ ge_results' = <<>>
  /\ ge_log' = <<>>
  /\ ge_pc' = IF hasKey THEN "loop" ELSE "thrown"
  /\ UNCHANGED <<hasKey, moreVars, rdVars, trVars, vaVars, exVars, emVars, fs, storeVars, runVars>>

\* index.ts 943-966: one iteration of the loop over the batches
EmbeddingsBatch ==
  /\ ge_pc = "loop"
  /\ ge_i < Len(ge_texts)
  /\ LET batch          == Slice(ge_texts, ge_i, ge_batchSize)
         truncatedBatch == [k \in DOMAIN batch |-> Substring8000(batch[k])]
         more           == ge_i + ge_batchSize < Len(ge_texts)
     IN
     \/ \E f \in Perms(Len(truncatedBatch)) :
          LET sortedData == SortByIndex(ResponseData(truncatedBatch, f))
          IN  /\ ge_results' = ge_results \o [k \in DOMAIN sortedData |-> sortedData[k].embedding]
              /\ ge_log' = ge_log \o << Request(truncatedBatch) >>
                                  \o (IF more THEN << Wait(BatchDelayMs) >> ELSE <<>>)
              /\ ge_i' = ge_i + ge_batchSize
              /\ UNCHANGED ge_pc
     \/ /\ ge_pc' = "thrown"                      \* embeddings.create throws
        /\ ge_log' = Append(ge_log, Request(truncatedBatch))
        /\ UNCHANGED <<ge_i, ge_results>>
  /\ UNCHANGED <<hasKey, moreVars, rdVars, trVars, ge_texts, ge_batchSize, vaVars, exVars, emVars, fs, storeVars, runVars>>

\* index.ts 968: return results
EmbeddingsReturn ==
  /\ ge_pc = "loop"
  /\ ge_i >= Len(ge_texts)
  /\ ge_pc' = "returned"
  /\ UNCHANGED <<hasKey, moreVars, rdVars, trVars, ge_texts, ge_batchSize, ge_i, ge_results, ge_log, vaVars,
                 exVars, emVars, fs, storeVars, runVars>>

\* ------------------------------------------- the store's read operations
\* Folder names and the folder argument are sequences of characters.
ATeam == <<"A", " ", "t", "e", "a", "m">>
BTeam == <<"B", " ", "t", "e", "a", "m">>

\* String.prototype.toLowerCase on the characters in use
LowerChar(c) ==
  CASE c = "A" -> "a"
    [] c = "B" -> "b"
    [] c = "E" -> "e"
    [] c = "M" -> "m"
    [] c = "T" -> "t"
    [] OTHER -> c

toLowerCase(str) == [i \in DOMAIN str |-> LowerChar(str[i])]

\* String.prototype.includes
StrIncludes(str, sub) ==
  \E i \in 0..(Len(str) - Len(sub)) : SubSeq(str, i + 1, i + Len(sub)) = sub

\* an optional argument
NotGiven     == [given |-> FALSE, value |-> <<>>]
Given(v)     == [given |-> TRUE, value |-> v]
NoLimit      == [given |-> FALSE, value |-> 0]
NoName       == [given |-> FALSE, value |-> ""]

\* a JSON column: ok is FALSE when JSON.parse throws on it
Json(v)     == [ok |-> TRUE, value |-> v]
BadJson     == [ok |-> FALSE, value |-> <<>>]

StoredTheme(n, k) == [name |-> n, evidence |-> [i \in 1..k |-> "q"]]

\* rows of the documents table: vector is the row's coordinate on a line, the
\* query vector being a point of that line
DocumentSamples ==
  { [folders |-> Json(<<ATeam>>), themes_json |-> Json(<<StoredTheme("pain-points", 2)>>),
     created_at |-> 1, has_transcript |-> TRUE, vector |-> 0],
    [folders |-> Json(<<BTeam>>), themes_json |-> Json(<<>>),
     created_at |-> 2, has_transcript |-> FALSE, vector |-> 1],
    [folders |-> Json(<<>>),
     themes_json |-> Json(<<StoredTheme("pricing", 1), StoredTheme("pain-points", 1),
                            StoredTheme("pricing", 2)>>),
     created_at |-> 2, has_transcript |-> TRUE, vector |-> 1],
    [folders |-> BadJson, themes_json |-> BadJson,
     created_at |-> 1, has_transcript |-> FALSE, vector |-> 2] }

\* the documents tables the read operations are run on: row k has id DocIdOf(k)
DocumentTables ==
  UNION { { [k \in 1..n |-> [id |-> DocIdOf(k)] @@ f[k]] : f \in [1..n -> DocumentSamples] }
          : n \in 0..MaxRows }

RECURSIVE Flatten(_)
Flatten(lists) == IF lists = <<>> THEN <<>> ELSE Head(lists) \o Flatten(Tail(lists))

\* the chunks an index run stores for the rows of a documents table: per document a
\* summary chunk and a chunk per theme, each with a vector near the document's
\* (the chunks of row k lie at 2 * (vector + i) + k % 2, so that chunks of rows k and
\* k + 2 with equal texts lie at one point and chunks of neighbouring rows do not)
ChunksOfRow(row, k) ==
  << [vector |-> 2 * row.vector + (k % 2)] @@ ChunkRow(SummaryChunk(row.id)) >>
  \o [i \in DOMAIN row.themes_json.value |->
        [vector |-> 2 * (row.vector + i) + (k % 2)]
        @@ ChunkRow(ThemeChunk(row.id, row.themes_json.value[i]))]

ChunksOfTable(rows) ==
  Flatten([k \in DOMAIN rows |-> IF rows[k].themes_json.ok THEN ChunksOfRow(rows[k], k) ELSE <<>>])

QueryVectors == {0, 1}

\* the L2 distance lancedb reports in _distance (squared)
Distance(v, q) == (v - q) * (v - q)

\* the field _distance of a fetched row
Defined(d)        == [defined |-> TRUE, value |-> d]
UndefinedDistance == [defined |-> FALSE, value |-> 0]

\* table.search(queryVector).limit(n).toArray(): the n nearest rows, nearest
\* first, rows at equal distance in any order
RECURSIVE NearestFirst(_, _, _)
NearestFirst(rows, q, left) ==
  IF left = {} THEN { <<>> }
  ELSE LET nearest == { i \in left : \A j \in left :
                          Distance(rows[i].vector, q) <= Distance(rows[j].vector, q) }
       IN  UNION { { <<i>> \o rest : rest \in NearestFirst(rows, q, left \ {i}) } : i \in nearest }
Nearest(rows, q, n) ==
  { [k \in 1..Min(n, Len(rows)) |-> [_distance |-> Defined(Distance(rows[f[k]].vector, q))]
                                     @@ rows[f[k]]]
    : f \in NearestFirst(rows, q, DOMAIN rows) }

\* a score is a fraction <<numerator, denominator>>
\* mutant: the score is the distance itself
Score_Distance(d) == IF d.defined THEN << d.value, 1 >> ELSE << 0, 1 >>

\* row._distance !== undefined ? 1 / (1 + row._distance) : 0
Score(d) == IF d.defined THEN << 1, 1 + d.value >> ELSE << 0, 1 >>

DefaultSearchLimit == 10

\* mutant: the folder test compares the names as they are
FolderMatches_CaseSensitive(row, folder) ==
  IF ~folder.given \/ folder.value = <<>> THEN TRUE
  ELSE \E i \in DOMAIN row.folders.value : StrIncludes(row.folders.value[i], folder.value)

\* if (!folder) return true;
\* folders.some(f => f.toLowerCase().includes(folder.toLowerCase()))
FolderMatches(row, folder) ==
  IF ~folder.given \/ folder.value = <<>> THEN TRUE
  ELSE \E i \in DOMAIN row.folders.value :
          StrIncludes(toLowerCase(row.folders.value[i]), toLowerCase(folder.value))

\* the filter of searchDocuments and getAllDocuments parses folders when a folder is
\* asked for; the map parses the JSON columns of every row it is given
FilterThrows(rows, folder) ==
  /\ folder.given /\ folder.value # <<>>
  /\ \E i \in DOMAIN rows : ~rows[i].folders.ok

MapThrows(rows) == \E i \in DOMAIN rows : ~rows[i].folders.ok \/ ~rows[i].themes_json.ok

\* vector-store.ts 135-147
SearchHit(row) ==
  [id |-> row.id, folders |-> row.folders.value, themes |-> row.themes_json.value,
   created_at |-> row.created_at, has_transcript |-> row.has_transcript,
   score |-> Score(row._distance)]

FolderArgs ==
  { NotGiven, Given(<<>>), Given(<<"a", " ", "t", "e", "a", "m">>),
    Given(<<"T", "E", "A", "M">>), Given(<<"x">>) }

LimitArgs == { NoLimit } \cup { Given(n) : n \in 1..MaxLimit }

Returned(v) == [kind |-> "returned", value |-> v]
Thrown      == [kind |-> "thrown", value |-> <<>>]

\* the arguments of a read operation; one that the operation does not take is not given
ReadArgs(limit, folder, q, type, themeName) ==
  [limit |-> limit, folder |-> folder, queryVector |-> q, type |-> type, themeName |-> themeName,
   documentId |-> "", theme |-> ""]

NoArgs == ReadArgs(NoLimit, NotGiven, 0, NoName, NoName)

RdIdle ==
  /\ db = "null"
  /\ rd_pc = "idle"
  /\ rd_op = "none"
  /\ rd_args = NoArgs
  /\ rd_fetched = <<>>
  /\ rd_failed = "none"
  /\ rd_out = Returned(<<>>)

\* getDatabase (vector-store.ts 10-15), called before the try block of every read
\* operation: lancedb.connect is awaited when db is null and may reject
ConnectOutcomes == IF db = "null" THEN {"connected", "rejected"} ELSE {"connected"}

\* openTable(name) rejects for a table that does not exist, and may reject on a
\* failure of the storage, as toArray() may
OpenOutcomes(name) == IF name \in tableNames THEN {"opened", "rejected"} ELSE {"rejected"}

\* The frame the five read operations share:
\*   const database = await getDatabase(dbPath);
\*   try { table = await database.openTable(T); results = await ...toArray();
\*         return <Result(results)> } catch (error) { return <OnThrow(results)> }
\* Decodings holds, for every row list toArray() can give, what decoding it comes to;
\* caught is what the caller gets when openTable or the query raised.
ReadOperation(op, args, table, caught, Decodings) ==
  /\ rd_pc = "idle"
  /\ rd_pc' = "done"
  /\ rd_op' = op
  /\ rd_args' = args
  /\ \E c \in ConnectOutcomes :
       IF c = "rejected"
       THEN /\ db' = db
            /\ rd_failed' = "connect"
            /\ rd_fetched' = <<>>
            /\ rd_out' = Thrown
       ELSE /\ db' = "connected"
            /\ \E o \in OpenOutcomes(table) :
                 IF o = "rejected"
                 THEN /\ rd_failed' = "openTable"
                      /\ rd_fetched' = <<>>
                      /\ rd_out' = Returned(caught)
                 ELSE \/ /\ rd_failed' = "toArray"
                         /\ rd_fetched' = <<>>
                         /\ rd_out' = Returned(caught)
                      \/ \E d \in Decodings :
                           /\ rd_fetched' = d.fetched
                           /\ rd_failed' = d.failed
                           /\ rd_out' = Returned(d.value)
  /\ UNCHANGED <<hasKey, moreVars, geVars, trVars, vaVars, exVars, emVars, fs, storeVars, runVars>>

\* decoding the fetched rows raised, and value was returned after the catch
DecodeThrew(results, value) == [fetched |-> results, failed |-> "decode", value |-> value]
\* decoding the fetched rows gave value
Decoded(results, value) == [fetched |-> results, failed |-> "none", value |-> value]

\* searchDocuments (vector-store.ts 101-152)
SearchDocuments ==
  \E limit \in LimitArgs, folder \in FolderArgs, q \in QueryVectors :
    LET n == IF limit.given THEN limit.value ELSE DefaultSearchLimit
    IN  ReadOperation("searchDocuments", ReadArgs(limit, folder, q, NoName, NoName), "documents", <<>>,
          { LET kept == SelectSeq(results, LAMBDA row : FolderMatches(row, folder))
            IN  IF FilterThrows(results, folder) \/ MapThrows(kept)
                THEN DecodeThrew(results, <<>>)
                ELSE Decoded(results, [k \in DOMAIN kept |-> SearchHit(kept[k])])
            : results \in Nearest(documentsRows, q, n) })

\* ---- searchChunks (vector-store.ts 155-202)
DefaultChunkLimit == 20

\* if (type && row.type !== type) return false;
\* if (themeName && row.theme_name !== themeName) return false;
\* mutant: the theme name is not tested
ChunkMatches_TypeOnly(row, type, themeName) ==
  (type.given /\ type.value # "") => row.type = type.value

\* if (type && row.type !== type) return false;
\* if (themeName && row.theme_name !== themeName) return false;
ChunkMatches(row, type, themeName) ==
  /\ (type.given /\ type.value # "") => row.type = type.value
  /\ (themeName.given /\ themeName.value # "") => row.theme_name = themeName.value

ChunkHit(row) ==
  [id |-> row.id, document_id |-> row.document_id, type |-> row.type,
   theme_name |-> row.theme_name, score |-> Score(row._distance)]

TypeArgs      == { NoName, Given("theme"), Given("quote") }
ThemeNameArgs == { NoName, Given(""), Given("pain-points") }

SearchChunks ==
  \E limit \in LimitArgs, type \in TypeArgs, themeName \in ThemeNameArgs, q \in QueryVectors :
    LET n == IF limit.given THEN limit.value ELSE DefaultChunkLimit
    IN  ReadOperation("searchChunks", ReadArgs(limit, NotGiven, q, type, themeName), "chunks", <<>>,
          { LET kept == SelectSeq(results, LAMBDA row : ChunkMatches(row, type, themeName))
                cut  == SubSeq(kept, 1, Min(n, Len(kept)))
            IN  Decoded(results, [k \in DOMAIN cut |-> ChunkHit(cut[k])])
            : results \in Nearest(chunksRows, q, n * 2) })

\* ---- getAllDocuments (vector-store.ts 205-244)
\* Array.prototype.sort with (a, b) => b.key - a.key: descending, stable
InsertDesc(sorted, x) ==
  LET pos == Len(SelectSeq(sorted, LAMBDA y : y.key >= x.key))
  IN  SubSeq(sorted, 1, pos) \o <<x>> \o SubSeq(sorted, pos + 1, Len(sorted))

\* mutant: the rows keep the order of the table
SortDesc_TableOrder(items) == items

RECURSIVE SortDesc(_)
SortDesc(items) ==
  IF items = <<>> THEN <<>>
  ELSE InsertDesc(SortDesc(SubSeq(items, 1, Len(items) - 1)), items[Len(items)])

ListedDocument(row) ==
  [id |-> row.id, folders |-> row.folders.value, created_at |-> row.created_at,
   has_transcript |-> row.has_transcript]

FoldersThrow(rows) == \E i \in DOMAIN rows : ~rows[i].folders.ok

\* the filter, map and sort of getAllDocuments on the rows of the table
ListDocuments(results, folder) ==
  LET kept   == SelectSeq(results, LAMBDA row : FolderMatches(row, folder))
      keyed  == [k \in DOMAIN kept |-> [key |-> kept[k].created_at,
                                        item |-> ListedDocument(kept[k])]]
      sorted == SortDesc(keyed)
  IN  IF FilterThrows(results, folder) \/ FoldersThrow(kept)
      THEN DecodeThrew(results, <<>>)
      ELSE Decoded(results, [k \in DOMAIN sorted |-> sorted[k].item])

GetAllDocuments ==
  \E folder \in FolderArgs :
    ReadOperation("getAllDocuments", ReadArgs(NoLimit, folder, 0, NoName, NoName), "documents",
                  <<>>, { ListDocuments(documentsRows, folder) })

\* ---- getThemeStats (vector-store.ts 288-312)
\* the rows before the first one whose JSON column does not parse
RECURSIVE RowsBeforeBad(_, _)
RowsBeforeBad(rows, column) ==
  IF rows = <<>> \/ ~Head(rows)[column].ok THEN <<>>
  ELSE <<Head(rows)>> \o RowsBeforeBad(Tail(rows), column)

\* mutant: total_quotes counts the occurrences, not their evidence
RECURSIVE ThemeStatsOf_CountOnly(_)
ThemeStatsOf_CountOnly(themes) ==
  IF themes = <<>> THEN <<>>
  ELSE LET stats == ThemeStatsOf_CountOnly(SubSeq(themes, 1, Len(themes) - 1))
           theme == themes[Len(themes)]
       IN  IF \E i \in DOMAIN stats : stats[i].name = theme.name
           THEN [i \in DOMAIN stats |->
                   IF stats[i].name = theme.name
                   THEN [stats[i] EXCEPT !.document_count = @ + 1, !.total_quotes = @ + 1]
                   ELSE stats[i]]
           ELSE Append(stats, [name |-> theme.name, document_count |-> 1, total_quotes |-> 1])

\* the Map stats after the loop over the themes, as its entries in insertion order
RECURSIVE ThemeStatsOf(_)
ThemeStatsOf(themes) ==
  IF themes = <<>> THEN <<>>
  ELSE LET stats == ThemeStatsOf(SubSeq(themes, 1, Len(themes) - 1))
           theme == themes[Len(themes)]
       IN  IF \E i \in DOMAIN stats : stats[i].name = theme.name
           THEN [i \in DOMAIN stats |->
                   IF stats[i].name = theme.name
                   THEN [stats[i] EXCEPT !.document_count = @ + 1,
                                         !.total_quotes = @ + Len(theme.evidence)]
                   ELSE stats[i]]
           ELSE Append(stats, [name |-> theme.name, document_count |-> 1,
                               total_quotes |-> Len(theme.evidence)])

ThemeStatsOfRows(rows) == ThemeStatsOf(Flatten([k \in DOMAIN rows |-> rows[k].themes_json.value]))

\* the catch block only logs: the entries set before the throw are returned
GetThemeStats ==
  LET results == documentsRows
  IN  ReadOperation("getThemeStats", NoArgs, "documents", <<>>,
        { IF \E i \in DOMAIN results : ~results[i].themes_json.ok
          THEN DecodeThrew(results, ThemeStatsOfRows(RowsBeforeBad(results, "themes_json")))
          ELSE Decoded(results, ThemeStatsOfRows(results)) })

\* ---- getAllFolders (vector-store.ts 315-338)
RECURSIVE FolderCountsOf(_)
FolderCountsOf(names) ==
  IF names = <<>> THEN <<>>
  ELSE LET counts == FolderCountsOf(SubSeq(names, 1, Len(names) - 1))
           name   == names[Len(names)]
       IN  IF \E i \in DOMAIN counts : counts[i].name = name
           THEN [i \in DOMAIN counts |->
                   IF counts[i].name = name
                   THEN [counts[i] EXCEPT !.document_count = @ + 1] ELSE counts[i]]
           ELSE Append(counts, [name |-> name, document_count |-> 1])

\* Array.from(folderCounts.entries()).map(...).sort((a, b) => b.document_count - a.document_count)
FolderListOfRows(rows) ==
  LET counts == FolderCountsOf(Flatten([k \in DOMAIN rows |-> rows[k].folders.value]))
      sorted == SortDesc([k \in DOMAIN counts |-> [key |-> counts[k].document_count,
                                                   item |-> counts[k]]])
  IN  [k \in DOMAIN sorted |-> sorted[k].item]

GetAllFolders ==
  LET results == documentsRows
  IN  ReadOperation("getAllFolders", NoArgs, "documents", <<>>,
        { IF FoldersThrow(results)
          THEN DecodeThrew(results, FolderListOfRows(RowsBeforeBad(results, "folders")))
          ELSE Decoded(results, FolderListOfRows(results)) })

\* ---- getDocumentById (vector-store.ts 247-285)
\* the ids asked for: stored ones, one that no row has, one that closes the quote of
\* the where clause and adds a condition that holds of every row, and one that
\* leaves the clause with an unbalanced quote
InjectedId == "x' OR '1'='1"
UnbalancedId == "d'1"
IdArgs == { DocIdOf(1), DocIdOf(2), DocIdOf(5), InjectedId, UnbalancedId }

\* table.query().where(`id = '${documentId}'`).toArray(): the set of row lists it
\* gives; none when the clause does not parse (toArray rejects)
WhereId(rows, documentId) ==
  IF documentId = UnbalancedId THEN {}
  ELSE IF documentId = InjectedId THEN { rows }
  ELSE { SelectSeq(rows, LAMBDA row : row.id = documentId) }

FullDocument(row) ==
  [id |-> row.id, folders |-> row.folders.value, themes |-> row.themes_json.value,
   created_at |-> row.created_at, has_transcript |-> row.has_transcript]

\* null is the empty list, a document the list of that document
DocumentOrNull(results) ==
  IF results = <<>> THEN Decoded(results, <<>>)
  ELSE IF ~results[1].folders.ok \/ ~results[1].themes_json.ok THEN DecodeThrew(results, <<>>)
  ELSE Decoded(results, << FullDocument(results[1]) >>)

GetDocumentById ==
  \E documentId \in IdArgs :
    ReadOperation("getDocumentById", [NoArgs EXCEPT !.documentId = documentId], "documents", <<>>,
      { DocumentOrNull(results) : results \in WhereId(documentsRows, documentId) })

\* ---- handleGetDocument (get-document.ts 4-45): the result is the document or
\* { error: 'Document not found: <id>' }; a throw of getDocumentById is not caught
NoDocument == [id |-> "", folders |-> <<>>, themes |-> <<>>, created_at |-> 0,
               has_transcript |-> FALSE]
DocumentNotFound == [error |-> "Document not found", document |-> NoDocument]
DocumentFound(doc) == [error |-> "", document |-> doc]

HandleGetDocument ==
  \E documentId \in IdArgs :
    ReadOperation("handleGetDocument", [NoArgs EXCEPT !.documentId = documentId], "documents",
      << DocumentNotFound >>,
      { LET d == DocumentOrNull(results)
        IN  [d EXCEPT !.value = IF d.value = <<>> THEN << DocumentNotFound >>
                                ELSE << DocumentFound(d.value[1]) >>]
        : results \in WhereId(documentsRows, documentId) })

\* ---- handleSearchThemes (part_005 5-57)
RECURSIVE SumSeq(_)
SumSeq(ns) == IF ns = <<>> THEN 0 ELSE Head(ns) + SumSeq(Tail(ns))

\* themes.ts 47-49
getThemeById(id) == ThemeNamesInclude(id)

DefaultThemeLimit == 10
ThemeArgs == { "pain-points", "pricing", "not-a-theme" }
ThemeFolderArgs == { NotGiven, Given(<<"a", " ", "t", "e", "a", "m">>) }

\* fullDoc.themes.find(t => t.name === theme): the list of the first such theme, or
\* the empty list for undefined
FindTheme(themes, theme) ==
  LET named == SelectSeq(themes, LAMBDA t : t.name = theme)
  IN  IF named = <<>> THEN <<>> ELSE << named[1] >>

ThemeDocument(fullDoc, themeData) ==
  [id |-> fullDoc.id, folders |-> fullDoc.folders, date |-> fullDoc.created_at,
   evidence |-> themeData.evidence]

\* mutant: the loop does not stop at `limit` matching documents
RECURSIVE MatchingDocs_NoBreak(_, _, _, _)
MatchingDocs_NoBreak(looked, theme, limit, matchingDocs) ==
  IF looked = <<>> THEN matchingDocs
  ELSE LET fullDoc   == Head(looked)
           themeData == IF fullDoc = <<>> THEN <<>> ELSE FindTheme(fullDoc[1].themes, theme)
       IN  IF fullDoc = <<>> \/ themeData = <<>>
           THEN MatchingDocs_NoBreak(Tail(looked), theme, limit, matchingDocs)
           ELSE MatchingDocs_NoBreak(Tail(looked), theme, limit,
                                     Append(matchingDocs, ThemeDocument(fullDoc[1], themeData[1])))

\* the loop over allDocs.slice(0, limit * 2): looked[k] is what getDocumentById gave
\* for the k-th candidate, null being the empty list
RECURSIVE MatchingDocs(_, _, _, _)
MatchingDocs(looked, theme, limit, matchingDocs) ==
  IF looked = <<>> THEN matchingDocs
  ELSE LET fullDoc   == Head(looked)
           themeData == IF fullDoc = <<>> THEN <<>> ELSE FindTheme(fullDoc[1].themes, theme)
       IN  IF fullDoc = <<>> \/ themeData = <<>>
           THEN MatchingDocs(Tail(looked), theme, limit, matchingDocs)
           ELSE LET pushed == Append(matchingDocs, ThemeDocument(fullDoc[1], themeData[1]))
                IN  IF Len(pushed) >= limit THEN pushed
                    ELSE MatchingDocs(Tail(looked), theme, limit, pushed)

ThemeSearchResult(theme, documents) ==
  << [theme |-> theme, documents |-> documents,
      total_evidence_count |-> SumSeq([k \in DOMAIN documents |-> Len(documents[k].evidence)])] >>

\* getDocumentById for a listed document: its row decoded, or null when the call
\* caught an exception (lost) or a JSON column of the row does not parse
LookedUp(rows, id, lost) ==
  LET found == SelectSeq(rows, LAMBDA row : row.id = id)
  IN  IF lost \/ found = <<>> THEN <<>> ELSE DocumentOrNull(found).value

\* the candidates whose getDocumentById call caught an exception: none or one of them
LostLookups(n) == { {} } \cup { {k} : k \in 1..n }

HandleSearchThemes ==
  \E theme \in ThemeArgs, folder \in ThemeFolderArgs, limit \in LimitArgs :
    LET args == [ReadArgs(limit, folder, 0, NoName, NoName) EXCEPT !.theme = theme]
        n    == IF limit.given THEN limit.value ELSE DefaultThemeLimit
    IN  IF ~getThemeById(theme)
        THEN /\ rd_pc = "idle"
             /\ rd_pc' = "done"
             /\ rd_op' = "handleSearchThemes"
             /\ rd_args' = args
             /\ rd_fetched' = <<>>
             /\ rd_failed' = "none"
             /\ rd_out' = Returned(ThemeSearchResult(theme, <<>>))
             /\ UNCHANGED <<hasKey, moreVars, db, geVars, trVars, vaVars, exVars, emVars, fs, storeVars,
                            runVars>>
        ELSE ReadOperation("handleSearchThemes", args, "documents",
               ThemeSearchResult(theme, <<>>),
               { LET allDocs    == ListDocuments(documentsRows, folder)
                     candidates == SubSeq(allDocs.value, 1, Min(n * 2, Len(allDocs.value)))
                     looked     == [k \in DOMAIN candidates |->
                                      LookedUp(documentsRows, candidates[k].id, k \in lost)]
                 IN  [allDocs EXCEPT !.value =
                        ThemeSearchResult(theme, MatchingDocs(looked, theme, n, <<>>))]
                 : lost \in LostLookups(Min(n * 2, Len(documentsRows))) })

\* the caller has the result; the connection stays in db for the next call
ReadDone ==
  /\ rd_pc = "done"
  /\ rd_pc' = "idle"
  /\ rd_op' = "none"
  /\ rd_args' = NoArgs
  /\ rd_fetched' = <<>>
  /\ rd_failed' = "none"
  /\ rd_out' = Returned(<<>>)
  /\ UNCHANGED <<hasKey, moreVars, db, geVars, trVars, vaVars, exVars, emVars, fs, storeVars, runVars>>

\* ------------------------------------------- a document's transcript files
\* index.ts 238-243 and get-transcript.ts 57-62: the same three steps in both
MaxTitleLen == 2
IllegalChars == {":", "?"}
TitleChars == {"a", " ", ":"}
FilenameCap == 100
TitleSamples == UNION { [1..n -> TitleChars] : n \in 0..MaxTitleLen }
DocId == <<"d", "1">>

StripIllegal(name) == SelectSeq(name, LAMBDA c : c \notin IllegalChars)

RECURSIVE CollapseSpace(_)
CollapseSpace(name) ==
  IF name = <<>> THEN <<>>
  ELSE IF Head(name) # " " THEN <<Head(name)>> \o CollapseSpace(Tail(name))
  ELSE IF Len(name) > 1 /\ name[2] = " " THEN CollapseSpace(Tail(name))
  ELSE <<"_">> \o CollapseSpace(Tail(name))

sanitizeFilename(name) ==
  LET r == CollapseSpace(StripIllegal(name))
  IN  SubSeq(r, 1, Min(Len(r), FilenameCap))

\* a || b on strings: the empty string is falsy
OrElse(a, b) == IF a # <<>> THEN a ELSE b

NoDir == [name |-> <<>>, files |-> {}]
NoRow == [id |-> <<>>, title |-> <<>>, has_transcript |-> FALSE]
NoCmd == [name |-> "none", rawOnly |-> FALSE, format |-> "both"]
NoResult == [kind |-> "none", from |-> "none"]
Formats == {"markdown", "json", "both"}

TrIdle ==
  /\ tr_pc = "start"
  /\ tr_doc = [id |-> DocId, title |-> <<>>, transcript |-> FALSE]
  /\ tr_cmd = NoCmd
  /\ tr_dir = NoDir
  /\ tr_row = NoRow
  /\ tr_flag = FALSE
  /\ tr_result = NoResult

TrFrame == UNCHANGED <<hasKey, moreVars, geVars, rdVars, vaVars, exVars, emVars, fs, storeVars, runVars>>

\* index.ts 84-127: the files the export command writes for one document;
\* --include-transcripts has the default true and no negation
ExportFiles(transcript, rawOnly, format) ==
  {"document.json"}
  \cup (IF transcript THEN {"transcript.json"} ELSE {})
  \cup (IF ~rawOnly /\ format \in {"markdown", "both"}
        THEN {"notes.md"} \cup (IF transcript THEN {"transcript.md", "transcript.txt"} ELSE {})
        ELSE {})

\* index.ts 665-693: the files the export phase of sync writes for one document
SyncFiles(transcript) ==
  {"document.json", "notes.md"}
  \cup (IF transcript THEN {"transcript.json", "transcript.md", "transcript.txt"} ELSE {})

\* the export command on an empty output directory
ExportCommand ==
  /\ tr_pc = "start"
  /\ \E rawOnly \in BOOLEAN, format \in Formats :
       /\ tr_cmd' = [name |-> "export", rawOnly |-> rawOnly, format |-> format]
       /\ tr_dir' = [name  |-> sanitizeFilename(OrElse(tr_doc.title, tr_doc.id)),
                     files |-> ExportFiles(tr_doc.transcript, rawOnly, format)]
  /\ tr_pc' = "exported"
  /\ UNCHANGED <<tr_doc, tr_row, tr_flag, tr_result>>
  /\ TrFrame

\* the export phase of sync on an empty data directory
SyncExport ==
  /\ tr_pc = "start"
  /\ tr_cmd' = [name |-> "sync", rawOnly |-> FALSE, format |-> "both"]
  /\ tr_dir' = [name  |-> sanitizeFilename(OrElse(tr_doc.title, tr_doc.id)),
                files |-> SyncFiles(tr_doc.transcript)]
  /\ tr_pc' = "exported"
  /\ UNCHANGED <<tr_doc, tr_row, tr_flag, tr_result>>
  /\ TrFrame

\* index.ts 332-335: hasTranscript of a directory
hasTranscript(files) == "transcript.json" \in files \/ "transcript.txt" \in files

\* index.ts 314-391: the row the index loop makes of the directory
IndexDirectory ==
  /\ tr_pc = "exported"
  /\ "document.json" \in tr_dir.files
  /\ tr_row' = [id             |-> tr_doc.id,
                title          |-> OrElse(tr_doc.title, tr_dir.name),
                has_transcript |-> hasTranscript(tr_dir.files)]
  /\ tr_pc' = "indexed"
  /\ UNCHANGED <<tr_doc, tr_cmd, tr_dir, tr_flag, tr_result>>
  /\ TrFrame

\* handleSearch, the document being among the hits
HandleSearch ==
  /\ tr_pc = "indexed"
  /\ tr_flag' = tr_row.has_transcript
  /\ tr_pc' = "searched"
  /\ UNCHANGED <<tr_doc, tr_cmd, tr_dir, tr_row, tr_result>>
  /\ TrFrame

\* get-transcript.ts 11-53
TranscriptResult(document_id) ==
  IF tr_row.id # document_id THEN [kind |-> "error", from |-> "Document not found"]
  ELSE LET sanitizedTitle == sanitizeFilename(tr_row.title)
           Exists(file)   == sanitizedTitle = tr_dir.name /\ file \in tr_dir.files
       IN  IF Exists("transcript.txt") THEN [kind |-> "transcript", from |-> "transcript.txt"]
           ELSE IF Exists("transcript.md") THEN [kind |-> "transcript", from |-> "transcript.md"]
           ELSE [kind |-> "error", from |-> "Transcript not available"]

HandleGetTranscript ==
  /\ tr_pc = "searched"
  /\ tr_result' = TranscriptResult(tr_row.id)
  /\ tr_pc' = "got"
  /\ UNCHANGED <<tr_doc, tr_cmd, tr_dir, tr_row, tr_flag>>
  /\ TrFrame

\* the query side is at rest
\* --------------------------------------------------- extractInsightsBatch
MaxBatchDocs == 4
MaxConcurrency == 2
DefaultConcurrency == 3
WindowDelayMs == 500

EbIdle ==
  /\ eb_pc = "idle"
  /\ eb_docs = <<>>
  /\ eb_concurrency = DefaultConcurrency
  /\ eb_i = 0
  /\ eb_calls = <<>>
  /\ eb_insights = <<>>
  /\ eb_results = <<>>
  /\ eb_log = <<>>

\* the concurrency option: absent, or a positive number
ConcurrencyArgs == { NoLimit } \cup { Given(n) : n \in 1..MaxConcurrency }

\* mutant: the window is all the documents that are left
WindowOf_Rest(docs, i, concurrency) == (i + 1)..Len(docs)

\* documents.slice(i, i + concurrency): the positions of the window, counted from 1
WindowOf(docs, i, concurrency) == (i + 1)..Min(i + concurrency, Len(docs))

\* results.set(id, insights): a key the Map holds keeps its place
RECURSIVE MapSet(_, _, _)
MapSet(results, id, insights) ==
  IF results = <<>> THEN << [id |-> id, insights |-> insights] >>
  ELSE IF results[1].id = id THEN << [id |-> id, insights |-> insights] >> \o Tail(results)
  ELSE << results[1] >> \o MapSet(Tail(results), id, insights)

\* for (const { id, insights } of batchResults) results.set(id, insights)
RECURSIVE SetAll(_, _, _, _)
SetAll(results, docs, insights, window) ==
  IF window = {} THEN results
  ELSE LET p == CHOOSE q \in window : \A r \in window : q <= r
       IN  SetAll(MapSet(results, docs[p], insights[p]), docs, insights, window \ {p})

\* insight-extractor.ts 186-201: the call, the defaults, the empty Map
BatchExtractCall ==
  /\ eb_pc \in {"idle", "returned", "thrown"}
  /\ \E n \in 0..MaxBatchDocs : eb_docs' \in [1..n -> {DocIdOf(1), DocIdOf(2)}]
  /\ \E c \in ConcurrencyArgs :
       eb_concurrency' = IF c.given THEN c.value ELSE DefaultConcurrency
  /\ eb_i' = 0
  /\ eb_calls' = [p \in DOMAIN eb_docs' |-> "waiting"]
  /\ eb_insights' = [p \in DOMAIN eb_docs' |-> NoInsights]
  /\ eb_results' = <<>>
  /\ eb_log' = <<>>
  /\ eb_pc' = "loop"
  /\ UNCHANGED <<hasKey, sgVars, readVars, vaVars, exVars, emVars, fs, storeVars, runVars>>

\* 203-211: batch.map starts an extractInsights call for every document of the
\* window at once; without the key each of them rejects on entry (line 24) and
\* Promise.all rejects
BatchWindow ==
  /\ eb_pc = "loop"
  /\ eb_i < Len(eb_docs)
  /\ LET batch == WindowOf(eb_docs, eb_i, eb_concurrency)
     IN  IF hasKey
         THEN /\ eb_calls' = [p \in DOMAIN eb_calls |-> IF p \in batch THEN "inflight" ELSE eb_calls[p]]
              /\ eb_pc' = "await"
         ELSE /\ eb_calls' = [p \in DOMAIN eb_calls |-> IF p \in batch THEN "rejected" ELSE eb_calls[p]]
              /\ eb_pc' = "thrown"
  /\ UNCHANGED <<hasKey, sgVars, readVars, vaVars, exVars, emVars, fs, storeVars, runVars,
                 eb_docs, eb_concurrency, eb_i, eb_insights, eb_results, eb_log>>

\* 207-209: one call of the window returns, extracted or degraded, and onProgress
\* is called; a callback that throws rejects Promise.all while the other calls of
\* the window are still running
BatchExtractDone ==
  /\ eb_pc = "await"
  /\ \E p \in DOMAIN eb_calls :
       /\ eb_calls[p] = "inflight"
       /\ eb_calls' = [eb_calls EXCEPT ![p] = "done"]
       /\ \E insights \in ExtractResults(NotesOfKind("notes")) :
            eb_insights' = [eb_insights EXCEPT ![p] = insights]
  /\ \/ UNCHANGED eb_pc
     \/ eb_pc' = "thrown"
  /\ UNCHANGED <<hasKey, sgVars, readVars, vaVars, exVars, emVars, fs, storeVars, runVars,
                 eb_docs, eb_concurrency, eb_i, eb_results, eb_log>>

\* 206, 213-215: Promise.all resolves when every call of the window has returned;
\* the entries are set in the order of the window
BatchCollect ==
  /\ eb_pc = "await"
  /\ LET batch == WindowOf(eb_docs, eb_i, eb_concurrency)
     IN  /\ \A p \in batch : eb_calls[p] = "done"
         /\ eb_results' = SetAll(eb_results, eb_docs, eb_insights, batch)
  /\ IF eb_i + eb_concurrency < Len(eb_docs)
     THEN eb_pc' = "delay" /\ UNCHANGED eb_i
     ELSE eb_pc' = "loop" /\ eb_i' = eb_i + eb_concurrency
  /\ UNCHANGED <<hasKey, sgVars, readVars, vaVars, exVars, emVars, fs, storeVars, runVars,
                 eb_docs, eb_concurrency, eb_calls, eb_insights, eb_log>>

\* 218-220: the delay between two windows, then i += concurrency
BatchDelay ==
  /\ eb_pc = "delay"
  /\ eb_log' = Append(eb_log, Wait(WindowDelayMs))
  /\ eb_i' = eb_i + eb_concurrency
  /\ eb_pc' = "loop"
  /\ UNCHANGED <<hasKey, sgVars, readVars, vaVars, exVars, emVars, fs, storeVars, runVars,
                 eb_docs, eb_concurrency, eb_calls, eb_insights, eb_results>>

\* 202, 223: the loop condition fails, return results
BatchReturn ==
  /\ eb_pc = "loop"
  /\ eb_i >= Len(eb_docs)
  /\ eb_pc' = "returned"
  /\ UNCHANGED <<hasKey, sgVars, readVars, vaVars, exVars, emVars, fs, storeVars, runVars,
                 eb_docs, eb_concurrency, eb_i, eb_calls, eb_insights, eb_results, eb_log>>

\* ------------------------------------------ the lazily constructed singletons
MaxCallers == 3
Callers == 1..MaxCallers

\* the two modules that keep an OpenAI client of their own
ClientModules == {"insight-extractor", "embedder"}

SgIdle ==
  /\ sg_db = 0
  /\ sg_opened = 0
  /\ sg_pc = [c \in Callers |-> "idle"]
  /\ sg_returned = {}
  /\ sg_client = [m \in ClientModules |-> 0]
  /\ sg_built = [m \in ClientModules |-> 0]
  /\ sg_clients = [m \in ClientModules |-> {}]

\* getDatabase up to its await (vector-store.ts 10-12): if (!db) calls
\* lancedb.connect and suspends; otherwise the call returns db
GetDatabaseEnter ==
  /\ \E c \in Callers :
       /\ sg_pc[c] \in {"idle", "returned", "rejected"}
       /\ IF sg_db = 0
          THEN /\ sg_pc' = [sg_pc EXCEPT ![c] = "connecting"]
               /\ UNCHANGED sg_returned
          ELSE /\ sg_pc' = [sg_pc EXCEPT ![c] = "returned"]
               /\ sg_returned' = sg_returned \cup {sg_db}
  /\ UNCHANGED <<hasKey, ebVars, readVars, vaVars, exVars, emVars, fs, storeVars, runVars,
                 sg_db, sg_opened, sg_client, sg_built, sg_clients>>

\* the connect of a suspended call resolves (12-14): db = <the new connection>;
\* return db
ConnectResolves ==
  /\ \E c \in Callers :
       /\ sg_pc[c] = "connecting"
       /\ sg_pc' = [sg_pc EXCEPT ![c] = "returned"]
  /\ sg_opened' = sg_opened + 1
  /\ sg_db' = sg_opened + 1
  /\ sg_returned' = sg_returned \cup {sg_opened + 1}
  /\ UNCHANGED <<hasKey, ebVars, readVars, vaVars, exVars, emVars, fs, storeVars, runVars,
                 sg_client, sg_built, sg_clients>>

\* the connect rejects: the call throws, db is not assigned
ConnectRejects ==
  /\ \E c \in Callers :
       /\ sg_pc[c] = "connecting"
       /\ sg_pc' = [sg_pc EXCEPT ![c] = "rejected"]
  /\ UNCHANGED <<hasKey, ebVars, readVars, vaVars, exVars, emVars, fs, storeVars, runVars,
                 sg_db, sg_opened, sg_returned, sg_client, sg_built, sg_clients>>

\* getOpenAI (insight-extractor.ts 7-16, index.ts 872-881): no await between the
\* test and the assignment; without the key it throws and constructs nothing
GetOpenAI ==
  /\ hasKey
  /\ \E m \in ClientModules :
       IF sg_client[m] = 0
       THEN /\ sg_built' = [sg_built EXCEPT ![m] = @ + 1]
            /\ sg_client' = [sg_client EXCEPT ![m] = sg_built[m] + 1]
            /\ sg_clients' = [sg_clients EXCEPT ![m] = @ \cup {sg_built[m] + 1}]
       ELSE /\ sg_clients' = [sg_clients EXCEPT ![m] = @ \cup {sg_client[m]}]
            /\ UNCHANGED <<sg_built, sg_client>>
  /\ UNCHANGED <<hasKey, ebVars, readVars, vaVars, exVars, emVars, fs, storeVars, runVars,
                 sg_db, sg_opened, sg_pc, sg_returned>>

ReadIdle == GeIdle /\ RdIdle /\ TrIdle /\ EbIdle /\ SgIdle

\* ------------------------------------------------------- specifications
\* validation of every bounded model output
FsIdle == fs = [i \in DocDirs |-> "nodoc"]

InitValidate == hasKey = TRUE /\ VaInit /\ ExIdle /\ EmIdle /\ FsIdle /\ StoreEmpty /\ RunIdle /\ ReadIdle
NextValidate == ValidateStep
SpecValidate == InitValidate /\ [][NextValidate]_vars

\* one call of extractInsights and one call of generateEmbedding
InitCalls == hasKey \in BOOLEAN /\ VaIdle /\ ExIdle /\ EmIdle /\ FsIdle /\ StoreEmpty /\ RunIdle /\ ReadIdle
NextCalls ==
  \/ ExtractCall
  \/ ExtractAttempt
  \/ ExtractBackoff
  \/ EmbedCall
  \/ EmbedAttempt
  \/ EmbedBackoff
SpecCalls == InitCalls /\ [][NextCalls]_vars

\* index and sync commands run one after the other on one export directory
InitRuns ==
  /\ hasKey \in BOOLEAN
  /\ VaIdle /\ ExIdle /\ EmIdle
  /\ fs \in ExportDirs
  /\ StoreEmpty
  /\ RunIdle
  /\ ReadIdle
NextRuns ==
  \/ IndexStart
  \/ SyncStart
  \/ ExportDocument
  \/ ExportDone
  \/ ProcessDocument
  \/ LoopExit
  \/ InitializeTablesList
  \/ InitializeTablesDropDocuments
  \/ InitializeTablesDropChunks
  \/ StoreDocuments
  \/ StoreChunks
SpecRuns == InitRuns /\ [][NextRuns]_vars

\* calls of generateEmbeddings
InitBatch == hasKey \in BOOLEAN /\ VaIdle /\ ExIdle /\ EmIdle /\ FsIdle /\ StoreEmpty /\ RunIdle /\ ReadIdle
NextBatch ==
  \/ EmbeddingsCall
  \/ EmbeddingsBatch
  \/ EmbeddingsReturn
SpecBatch == InitBatch /\ [][NextBatch]_vars

\* read operations on a store that holds any of the bounded tables
InitReads ==
  /\ hasKey = TRUE
  /\ VaIdle /\ ExIdle /\ EmIdle /\ FsIdle /\ RunIdle /\ ReadIdle
  /\ documentsRows \in DocumentTables
  /\ chunksRows = ChunksOfTable(documentsRows)
  /\ tableNames \in { {}, {"documents", "chunks"} }
  /\ tableNames = {} => documentsRows = <<>>
NextReads ==
  \/ SearchDocuments
  \/ SearchChunks
  \/ GetAllDocuments
  \/ GetThemeStats
  \/ GetAllFolders
  \/ GetDocumentById
  \/ HandleGetDocument
  \/ HandleSearchThemes
  \/ ReadDone
SpecReads == InitReads /\ [][NextReads]_vars

\* one document of any bounded title, with or without a transcript at the source,
\* exported, indexed, found by a search and asked for its transcript
InitTranscript ==
  /\ hasKey = TRUE
  /\ VaIdle /\ ExIdle /\ EmIdle /\ FsIdle /\ StoreEmpty /\ RunIdle /\ GeIdle /\ RdIdle /\ EbIdle /\ SgIdle
  /\ tr_pc = "start"
  /\ tr_doc \in [id : {DocId}, title : TitleSamples, transcript : BOOLEAN]
  /\ tr_cmd = NoCmd
  /\ tr_dir = NoDir
  /\ tr_row = NoRow
  /\ tr_flag = FALSE
  /\ tr_result = NoResult
NextTranscript ==
  \/ ExportCommand
  \/ SyncExport
  \/ IndexDirectory
  \/ HandleSearch
  \/ HandleGetTranscript
SpecTranscript == InitTranscript /\ [][NextTranscript]_vars

\* extractInsightsBatch on every bounded list of documents
InitExtractBatch ==
  hasKey \in BOOLEAN /\ VaIdle /\ ExIdle /\ EmIdle /\ FsIdle /\ StoreEmpty /\ RunIdle /\ ReadIdle
NextExtractBatch ==
  \/ BatchExtractCall
  \/ BatchWindow
  \/ BatchExtractDone
  \/ BatchCollect
  \/ BatchDelay
  \/ BatchReturn
SpecExtractBatch == InitExtractBatch /\ [][NextExtractBatch]_vars

\* interleaved callers of getDatabase and getOpenAI in one process
InitSingletons ==
  hasKey \in BOOLEAN /\ VaIdle /\ ExIdle /\ EmIdle /\ FsIdle /\ StoreEmpty /\ RunIdle /\ ReadIdle
NextSingletons ==
  \/ GetDatabaseEnter
  \/ ConnectResolves
  \/ ConnectRejects
  \/ GetOpenAI
SpecSingletons == InitSingletons /\ [][NextSingletons]_vars

\* ------------------------------------------ claims on the two provider calls
\* the errors the specification calls transient: connection reset, timeout, rate limit
TransientErrors ==
  { <<"Connection", "error.">>, <<"Request", "timeout">>, <<"read", "ECONNRESET">>,
    <<"429", "rate limit", "exceeded">> }

LastOf(s) == s[Len(s)]

\* the requests and waits of a call that uses every attempt
FullRetryLog == << Request(1), Wait(2000), Request(2), Wait(4000), Request(3) >>

\* C1 as stated: every call to extractInsights ends by returning an insights value,
\* so no call ends by raising an error to its caller.
C1_EveryCallReturns == ex_pc # "thrown"

\* C1 amended: a call made with OPENAI_API_KEY set never raises: whatever fails on
\* an attempt (the request, the JSON parsing, the validation), the call is either
\* still within its 3 attempts or has returned an insights value with a non-empty
\* summary; only the missing key, found before the first request, is raised.
C1_ReturnsWhenKeySet ==
  /\ hasKey =>
       /\ ex_pc \in {"idle", "request", "wait", "returned"}
       /\ Len(ex_errors) <= 3
       /\ (ex_pc \in {"request", "wait"} => Len(ex_errors) < 3)
       /\ (ex_pc = "returned" =>
             /\ ex_result.insights_summary # <<>>
             /\ ex_result.themes \in Seq([name : STRING, evidence : Seq([text : STRING, speaker : STRING])])
             /\ Len(ex_result.key_quotes) >= 0)
  /\ (ex_pc = "thrown" => ~hasKey /\ ex_log = <<>> /\ ex_lastError = MissingKeyError)

\* C1 witness: the third attempt fails in validation after two transient failures,
\* and the call has returned
C1_Witness ==
  /\ hasKey
  /\ ex_pc = "returned"
  /\ Len(ex_errors) = 3
  /\ ex_errors[3] = NullTypeError
  /\ ex_errors[1] \in TransientErrors

\* C7: when the last attempt made has failed (a non-transient error, or a transient
\* one on the last allowed attempt), the value returned has no themes, no key
\* quotes, and as summary the first 200 characters of notes, or the marker
\* 'Extraction failed' when notes is empty.
C7_DegradedResult ==
  (ex_pc = "returned" /\ ex_errors # <<>> /\ LastOf(ex_errors) # NoError) =>
     /\ ex_result.themes = <<>>
     /\ ex_result.key_quotes = <<>>
     /\ (ex_notes = <<>> => ex_result.insights_summary = <<"Extraction failed">>)
     /\ (ex_notes # <<>> =>
           /\ IsPrefix(ex_result.insights_summary, ex_notes)
           /\ Len(ex_result.insights_summary) = Min(200, Len(ex_notes)))

\* C7 witness: a degraded return on notes longer than 200 characters, after a
\* transient failure on each of the 3 attempts
C7_Witness ==
  /\ ex_pc = "returned"
  /\ Len(ex_notes) > 200
  /\ Len(ex_errors) = 3
  /\ \A i \in 1..3 : ex_errors[i] \in TransientErrors
  /\ Len(ex_result.insights_summary) = 200

\* C8: extractInsights issues at most 3 requests; each request after the first
\* follows a transient error and a wait of 2 s, then 4 s; a non-transient error
\* ends the attempts at once.
C8_RetryPolicy ==
  /\ Len(SelectSeq(ex_log, LAMBDA e : e.ev = "request")) <= 3
  /\ IsPrefix(ex_log, FullRetryLog)
  /\ \A i \in DOMAIN ex_errors :
       /\ (i < Len(ex_errors) => ex_errors[i] \in TransientErrors)
       /\ (ex_errors[i] \notin TransientErrors => i = Len(ex_errors) /\ ex_pc = "returned")

\* C8 witness: three requests with both waits
C8_Witness == ex_log = FullRetryLog /\ ex_pc = "returned"

\* C9: generateEmbedding issues at most 3 requests, retrying only after a transient
\* error with waits of 2 s and 4 s; a non-transient failure, or a failure of the
\* third attempt, is thrown to the caller as it is and no vector is returned; a
\* vector returned is the one the provider sent.
C9_EmbedRetryThrows ==
  /\ IsPrefix(em_log, FullRetryLog)
  /\ \A i \in DOMAIN em_errors : i < Len(em_errors) => em_errors[i] \in TransientErrors
  /\ (em_errors # <<>> /\ (LastOf(em_errors) \notin TransientErrors \cup {NoError}
                            \/ (LastOf(em_errors) # NoError /\ Len(em_errors) = 3))) =>
        /\ em_pc = "thrown"
        /\ em_thrown = LastOf(em_errors)
        /\ em_result = NoVector
  /\ (em_pc = "returned" =>
        /\ LastOf(em_errors) = NoError
        /\ em_result \in Vectors
        /\ em_result = em_response)

\* C9 witness: the third attempt fails transiently and its error is thrown
C9_Witness ==
  /\ em_pc = "thrown"
  /\ em_log = FullRetryLog
  /\ em_thrown \in TransientErrors

\* C10: after transient failures of the first and the second attempt a third attempt
\* is made, and when it succeeds the call returns that attempt's result: the
\* validated insights of its response, resp. its embedding vector; no error and no
\* degraded fallback is surfaced.
C10_ThirdAttemptSucceeds ==
  /\ (Len(ex_errors) = 2 /\ ex_errors[1] \in TransientErrors /\ ex_errors[2] \in TransientErrors)
        => ex_pc \in {"wait", "request"}
  /\ (Len(ex_errors) = 3 /\ ex_errors[3] = NoError) =>
        /\ ex_pc = "returned"
        /\ ex_result = [insights_summary |-> IF ex_response.insights_summary = <<>>
                                             THEN <<"No insights extracted">>
                                             ELSE ex_response.insights_summary,
                        themes |-> CleanThemes(ex_response.themes),
                        key_quotes |-> CleanQuotes(ex_response.key_quotes)]
        /\ ex_result.insights_summary # <<"Extraction failed">>
  /\ (Len(em_errors) = 2 /\ em_errors[1] \in TransientErrors /\ em_errors[2] \in TransientErrors)
        => em_pc \in {"wait", "request"}
  /\ (Len(em_errors) = 3 /\ em_errors[3] = NoError) =>
        /\ em_pc = "returned"
        /\ em_thrown = NoError
        /\ em_result = em_response
        /\ em_result \in Vectors

\* C10 witness: both calls succeeded on their third attempt
C10_Witness ==
  /\ Len(ex_errors) = 3 /\ ex_errors[3] = NoError /\ ex_pc = "returned"
  /\ ex_result.themes # <<>>
  /\ Len(em_errors) = 3 /\ em_errors[3] = NoError /\ em_pc = "returned"

\* -------------------------------------------------- claims on validation
\* C2: every theme of a value the validation returns has a non-empty evidence list,
\* and every evidence element has non-empty text and speaker me or participant.
C2_ThemesHaveEvidence ==
  (va_pc = "done" /\ ~va_out.threw) =>
     \A i \in DOMAIN va_out.value.themes :
        LET ev == va_out.value.themes[i].evidence IN
        /\ Len(ev) > 0
        /\ \A j \in DOMAIN ev : ev[j].text # "" /\ ev[j].speaker \in {"me", "participant"}

\* ------------------------------------------- claims on the indexing runs
CountWhere(seq, P(_)) == Len(SelectSeq(seq, P))


StoreMutations ==
  {"dropTable documents", "dropTable chunks", "createTable documents", "createTable chunks"}

\* the tables as they are now
StoreNow == <<tableNames, documentsRows, chunksRows>>

\* C3: while a run has not aborted, the documents pushed to indexedDocs under one
\* id have in allChunks exactly 1 summary chunk each, 1 theme chunk per theme and 1
\* quote chunk per key quote, and allChunks has the sum over the documents of
\* 1 + |themes| + |key_quotes| elements.
C3_ChunksPerDocument ==
  run_pc # "aborted" =>
     /\ \A i \in DOMAIN indexedDocs :
          LET id        == indexedDocs[i].id
              docs      == SelectSeq(indexedDocs, LAMBDA d : d.id = id)
              OfType(t) == CountWhere(allChunks, LAMBDA c : c.document_id = id /\ c.type = t)
          IN  /\ OfType("summary") = Len(docs)
              /\ OfType("theme") = SumSeq([k \in DOMAIN docs |-> Len(docs[k].themes)])
              /\ OfType("quote") = SumSeq([k \in DOMAIN docs |-> Len(docs[k].key_quotes)])
     /\ Len(allChunks) =
          SumSeq([i \in DOMAIN indexedDocs |->
                    1 + Len(indexedDocs[i].themes) + Len(indexedDocs[i].key_quotes)])

\* C4: a run that has aborted has left the tables as they were when it started.
C4_AbortLeavesStore == run_pc = "aborted" => StoreNow = run_prev

\* C5: a table is dropped or written only when every directory of the listing has
\* been through the loop; a completed run has made exactly two bulk writes, the
\* documents table and then the chunks table, as its last two store calls.
C5_StoreAfterLoop ==
  /\ \A i \in DOMAIN run_log :
       run_log[i] \in StoreMutations =>
          CountWhere(SubSeq(run_log, 1, i), LAMBDA e : e = "doc") = MaxDocs
  /\ run_pc = "done" =>
       /\ CountWhere(run_log, LAMBDA e : e \in {"createTable documents", "createTable chunks"}) = 2
       /\ Len(run_log) >= 2
       /\ run_log[Len(run_log) - 1] = "createTable documents"
       /\ run_log[Len(run_log)] = "createTable chunks"

\* C6: the ids of the chunk records of a run are pairwise distinct.
C6_ChunkIdsDistinct ==
  \A i, j \in DOMAIN allChunks : i # j => allChunks[i].id # allChunks[j].id

\* --------------------------------------------- claims on the validated result
\* the validation of va_in has returned a value
Validated == va_pc = "done" /\ ~va_out.threw

\* C11: every theme name of a validated result is an id of the theme registry, and
\* an output whose themes all carry names outside the registry gives an empty
\* themes list.
C11_ThemeNamesInRegistry ==
  Validated =>
     /\ \A i \in DOMAIN va_out.value.themes :
           \E k \in DOMAIN getThemeNames : getThemeNames[k] = va_out.value.themes[i].name
     /\ (\A i \in DOMAIN va_in.themes :
            \A k \in DOMAIN getThemeNames : getThemeNames[k] # va_in.themes[i].name)
         => va_out.value.themes = <<>>

\* an output with evidence-bearing themes, all outside the registry, was validated
C11_Witness ==
  /\ Validated
  /\ Len(va_in.themes) = 2
  /\ \A i \in DOMAIN va_in.themes :
        /\ va_in.themes[i].name = "not-a-theme"
        /\ va_in.themes[i].evidence = <<EvString("q")>>
  /\ va_out.value.themes = <<>>

\* the speaker a validated quote or evidence item must carry for a given one
SpeakerFor(s) == IF s \in {"me", "participant"} THEN s ELSE "participant"

\* C12: the key quotes of a validated result are the output's quotes with
\* non-empty text, in their order; each has the text given, the speaker given when
\* that is me or participant and participant otherwise, and the theme given when
\* that is a registry id and no theme otherwise.
C12_QuotesValidated ==
  Validated =>
     LET given == SelectSeq(va_in.key_quotes, LAMBDA q : q.text # "")
         out   == va_out.value.key_quotes
     IN  /\ Len(out) = Len(given)
         /\ \A i \in DOMAIN out :
               /\ out[i].text # ""
               /\ out[i].text = given[i].text
               /\ out[i].speaker \in {"me", "participant"}
               /\ out[i].speaker = SpeakerFor(given[i].speaker)
               /\ \/ out[i].theme = Undefined
                  \/ \E k \in DOMAIN getThemeNames : getThemeNames[k] = out[i].theme
               /\ (\E k \in DOMAIN getThemeNames : getThemeNames[k] = given[i].theme)
                     => out[i].theme = given[i].theme

\* an empty-text quote between two kept ones was dropped, an invalid speaker and an
\* unknown theme were replaced
C12_Witness ==
  /\ Validated
  /\ va_in.key_quotes = << QObject("k", "host", "not-a-theme"),
                           QObject("", "participant", Undefined),
                           QObject("k", "me", "pricing") >>
  /\ va_out.value.key_quotes = << [text |-> "k", speaker |-> "participant", theme |-> Undefined],
                                  [text |-> "k", speaker |-> "me", theme |-> "pricing"] >>

\* ------------------------------------------------- claims on the store's tables
\* the directories that hold a document.json, in listing order
DirsWithDocument == SelectSeq([i \in DocDirs |-> i], LAMBDA i : fs[i] # "nodoc")

IdsOf(rows) == { rows[i].id : i \in DOMAIN rows }

NoDuplicateId(rows) == \A i, j \in DOMAIN rows : i # j => rows[i].id # rows[j].id

\* C13: when a run has completed, both tables exist; the documents table holds one
\* row per directory with a document.json, in listing order, carrying the insights
\* this run computed, and the chunks table holds the chunks this run built and no
\* other row.
C13_TablesHoldThisRun ==
  run_pc = "done" =>
     /\ tableNames = {"documents", "chunks"}
     /\ Len(documentsRows) = Len(DirsWithDocument)
     /\ Len(documentsRows) = Len(indexedDocs)
     /\ \A k \in DOMAIN documentsRows :
           /\ documentsRows[k].id = DirDocId(DirsWithDocument[k], fs[DirsWithDocument[k]])
           /\ documentsRows[k].id = indexedDocs[k].id
           /\ documentsRows[k].insights_summary = indexedDocs[k].insights_summary
           /\ documentsRows[k].themes = indexedDocs[k].themes
           /\ documentsRows[k].key_quotes = indexedDocs[k].key_quotes
     /\ Len(chunksRows) = Len(allChunks)
     /\ \A k \in DOMAIN chunksRows :
           /\ chunksRows[k].id = allChunks[k].id
           /\ chunksRows[k].document_id = allChunks[k].document_id
           /\ chunksRows[k].type = allChunks[k].type

\* a run has completed on a store whose earlier run had indexed a document that
\* this run did not process
C13_Witness ==
  /\ run_pc = "done"
  /\ chunksRows # <<>>
  /\ run_prev[3] # <<>>
  /\ \E i \in DOMAIN run_prev[2] : run_prev[2][i].id \notin IdsOf(documentsRows)

\* C14: when an index run with extraction skipped has completed right after a
\* completed index run with extraction skipped on the same directory, the tables
\* hold the document ids and the chunk ids they held when it started, no id twice,
\* and every chunk's document_id is the id of a document row.
C14_IndexTwiceSame ==
  (run_pc = "done" /\ run_again) =>
     /\ IdsOf(documentsRows) = IdsOf(run_prev[2])
     /\ IdsOf(chunksRows) = IdsOf(run_prev[3])
     /\ NoDuplicateId(documentsRows)
     /\ NoDuplicateId(chunksRows)
     /\ \A k \in DOMAIN chunksRows : chunksRows[k].document_id \in IdsOf(documentsRows)

\* initializeTables has completed and nothing has been stored since
TablesInitialized ==
  \/ run_pc = "store_docs"
  \/ run_cmd = "sync" /\ run_pc = "loop"

\* C15: when initializeTables has completed neither table exists; and on the store
\* as it is at any moment, one call of initializeTables leaves no table, creates
\* none, and a second call leaves what the first left.
C15_InitializeTablesClears ==
  /\ TablesInitialized => tableNames = {} /\ documentsRows = <<>> /\ chunksRows = <<>>
  /\ LET once == initializeTables(StoreNow)
     IN  /\ once = << {}, <<>>, <<>> >>
         /\ once[1] \subseteq tableNames
         /\ initializeTables(once) = once

\* initializeTables has completed on a store that held both tables with rows
C15_Witness ==
  /\ TablesInitialized
  /\ run_existing = {"documents", "chunks"}
  /\ run_prev[2] # <<>>
  /\ run_prev[3] # <<>>
  /\ tableNames = {}

\* ------------------------------------------------- claims on generateEmbeddings
\* C16 as stated: a call that has returned gives one vector per input text, the
\* i-th being the embedding of the i-th input text.
C16_VectorOfEachText ==
  ge_pc = "returned" =>
     /\ Len(ge_results) = Len(ge_texts)
     /\ \A i \in DOMAIN ge_texts : ge_results[i] = EmbeddingOf(ge_texts[i])

\* C16: a call that has returned gives one vector per input text, the i-th being
\* the embedding of the first 8000 characters of the i-th input text, whatever the
\* order of the items in each response.
C16_VectorOfEachTruncatedText ==
  ge_pc = "returned" =>
     /\ Len(ge_results) = Len(ge_texts)
     /\ \A i \in DOMAIN ge_texts :
          ge_results[i] = << "embedding", ge_texts[i].first,
                             IF ge_texts[i].len > EmbedTextCap THEN "" ELSE ge_texts[i].rest >>

\* a call over two batches has returned, the last text longer than the cap
C16_Witness ==
  /\ ge_pc = "returned"
  /\ Len(ge_texts) = 3
  /\ ge_batchSize = 2
  /\ ge_texts[1] # ge_texts[2]
  /\ ge_texts[3].len > EmbedTextCap
  /\ Len(ge_results) = 3

\* --------------------------------------------------- claims on searchDocuments
\* searchDocuments has returned the rows of a query that raised nothing
SearchReturned == rd_pc = "done" /\ rd_op = "searchDocuments" /\ rd_failed = "none"

\* two characters that are the same letter, whatever their case
SameLetter(a, b) ==
  \/ a = b
  \/ {a, b} \in { {"A", "a"}, {"B", "b"}, {"E", "e"}, {"M", "m"}, {"T", "t"} }

\* the name holds the argument as a substring, case ignored
HoldsIgnoringCase(name, arg) ==
  \E off \in 0..(Len(name) - Len(arg)) :
     \A j \in 1..Len(arg) : SameLetter(name[off + j], arg[j])

\* the rows of the pool with a folder name holding the argument, in pool order
PoolMatching(arg) ==
  SelectSeq(rd_fetched,
            LAMBDA row : \E i \in DOMAIN row.folders.value :
                            HoldsIgnoringCase(row.folders.value[i], arg))

\* the pool is the `limit` nearest rows of the table, nearest first
PoolIsNearest ==
  LET limit == IF rd_args.limit.given THEN rd_args.limit.value ELSE 10
      dist(v) == (v - rd_args.queryVector) * (v - rd_args.queryVector)
  IN  /\ Len(rd_fetched) = IF Len(documentsRows) < limit THEN Len(documentsRows) ELSE limit
      /\ \A a, b \in DOMAIN rd_fetched :
            a < b => dist(rd_fetched[a].vector) <= dist(rd_fetched[b].vector)
      /\ \A a \in DOMAIN rd_fetched :
            /\ \E k \in DOMAIN documentsRows : documentsRows[k].id = rd_fetched[a].id
            /\ \A k \in DOMAIN documentsRows :
                  (\A b \in DOMAIN rd_fetched : rd_fetched[b].id # documentsRows[k].id)
                     => dist(rd_fetched[a].vector) <= dist(documentsRows[k].vector)

SameIds(hits, rows) ==
  /\ Len(hits) = Len(rows)
  /\ \A k \in DOMAIN hits : hits[k].id = rows[k].id

\* C19 as stated: given any folder argument, the hits are the rows of the pool that
\* have a folder name holding the argument, in ranking order.
C19_FolderFilterAnyArgument ==
  (SearchReturned /\ rd_args.folder.given) =>
     /\ PoolIsNearest
     /\ SameIds(rd_out.value, PoolMatching(rd_args.folder.value))

\* C19: given a non-empty folder argument, the hits are the rows of the pool of the
\* `limit` nearest documents that have a folder name holding the argument as a
\* case-insensitive substring, in ranking order, so at most `limit` rows; given an
\* empty string or no folder the hits are the whole pool.
C19_FolderFilter ==
  SearchReturned =>
     /\ PoolIsNearest
     /\ IF rd_args.folder.given /\ rd_args.folder.value # <<>>
        THEN SameIds(rd_out.value, PoolMatching(rd_args.folder.value))
        ELSE SameIds(rd_out.value, rd_fetched)
     /\ rd_args.limit.given => Len(rd_out.value) <= rd_args.limit.value

\* a search with limit 1 and a folder in another case has returned nothing although
\* a farther document of the table is in that folder
C19_Witness ==
  /\ SearchReturned
  /\ rd_args.limit = Given(1)
  /\ rd_args.folder = Given(<<"a", " ", "t", "e", "a", "m">>)
  /\ Len(rd_fetched) = 1
  /\ rd_out.value = <<>>
  /\ \E k \in DOMAIN documentsRows : documentsRows[k].folders = Json(<<ATeam>>)

\* C20: every score of a returned hit is a fraction in (0, 1], equal to
\* 1 / (1 + distance) of its row, and of two hits the one at the smaller distance
\* has no smaller score.
C20_ScoreOfDistance ==
  SearchReturned =>
     LET hits == rd_out.value
         row(k) == CHOOSE r \in { rd_fetched[a] : a \in DOMAIN rd_fetched } : r.id = hits[k].id
         d(k)   == row(k)._distance.value
     IN  /\ \A k \in DOMAIN hits :
              /\ hits[k].score[2] > 0
              /\ hits[k].score[1] > 0
              /\ hits[k].score[1] <= hits[k].score[2]
              /\ hits[k].score[1] * (1 + d(k)) = hits[k].score[2]
         /\ \A a, b \in DOMAIN hits :
              d(a) < d(b) => hits[a].score[1] * hits[b].score[2] >= hits[b].score[1] * hits[a].score[2]

\* two hits at different distances were returned, one of them at distance 0
C20_Witness ==
  /\ SearchReturned
  /\ Len(rd_out.value) = 2
  /\ rd_out.value[1].score = <<1, 1>>
  /\ rd_out.value[2].score # <<1, 1>>

\* ------------------------------------------- claims on the read operations
\* C17: when a step of a read operation has raised an exception, from obtaining the
\* connection to decoding the rows, the operation has returned an empty list or an
\* empty map and has thrown nothing.
C17_ReadErrorsGiveEmpty ==
  (rd_pc = "done" /\ rd_failed # "none"
     /\ rd_op \in {"searchDocuments", "searchChunks", "getAllDocuments", "getThemeStats",
                   "getAllFolders"}) =>
     /\ rd_out.kind = "returned"
     /\ rd_out.value = <<>>

\* C18: for a search hit, full_transcript_available is true exactly when
\* get_transcript for the hit's document id returns the transcript text, whatever
\* transcript files the document's directory holds.
C18_FlagIffTranscriptReturned ==
  tr_pc = "got" => (tr_flag <=> tr_result.kind = "transcript")

\* a row of the table has the id asked for
RowWithId == \E k \in DOMAIN documentsRows : documentsRows[k].id = rd_args.documentId

\* C21: getDocumentById has thrown nothing, has returned the stored document of the
\* id when a row with that id exists and null when none exists; handleGetDocument
\* has thrown nothing and has returned the error 'Document not found' when no row
\* has the id.
C21_DocumentOrNotFound ==
  /\ (rd_pc = "done" /\ rd_op = "getDocumentById") =>
        /\ rd_out.kind = "returned"
        /\ RowWithId => /\ Len(rd_out.value) = 1
                        /\ rd_out.value[1].id = rd_args.documentId
        /\ ~RowWithId => rd_out.value = <<>>
  /\ (rd_pc = "done" /\ rd_op = "handleGetDocument") =>
        /\ rd_out.kind = "returned"
        /\ ~RowWithId => rd_out.value = << DocumentNotFound >>

\* the row passes the folder filter of the listing: no folder or an empty one asked
\* for, or one of its folder names holds the argument, case ignored
PassesFolder(row, folder) ==
  \/ ~folder.given
  \/ folder.value = <<>>
  \/ \E i \in DOMAIN row.folders.value : HoldsIgnoringCase(row.folders.value[i], folder.value)

\* the place of row k of the table in the listing by created_at, latest first, rows
\* of one created_at in table order: the number of listed rows before it
ListingRank(rows, folder, k) ==
  Cardinality({ j \in DOMAIN rows :
                  /\ PassesFolder(rows[j], folder)
                  /\ \/ rows[j].created_at > rows[k].created_at
                     \/ rows[j].created_at = rows[k].created_at /\ j < k })

RowOfId(rows, id) == CHOOSE k \in DOMAIN rows : rows[k].id = id

ThemesReturned == rd_pc = "done" /\ rd_op = "handleSearchThemes" /\ rd_out.kind = "returned"

\* C22: handleSearchThemes has returned no document and total_evidence_count 0 for a
\* theme id outside the registry; otherwise at most `limit` documents, each a listed
\* document among the first 2 * limit of the date-sorted, folder-filtered listing that
\* holds the theme, in listing order, and total_evidence_count is the sum of the
\* lengths of their evidence lists.
C22_ThemeSearch ==
  ThemesReturned =>
    LET result == rd_out.value[1]
        docs   == result.documents
        theme  == rd_args.theme
        limit  == IF rd_args.limit.given THEN rd_args.limit.value ELSE 10
        rows   == documentsRows
        rank(k) == ListingRank(rows, rd_args.folder, RowOfId(rows, docs[k].id))
    IN  IF theme \notin { "pain-points", "feature-requests", "positive-feedback", "pricing",
                          "competition", "workflow", "decisions", "questions" }
        THEN docs = <<>> /\ result.total_evidence_count = 0
        ELSE /\ Len(docs) <= limit
             /\ \A k \in DOMAIN docs :
                   /\ \E j \in DOMAIN rows : rows[j].id = docs[k].id
                   /\ PassesFolder(rows[RowOfId(rows, docs[k].id)], rd_args.folder)
                   /\ rank(k) < 2 * limit
                   /\ \E t \in DOMAIN rows[RowOfId(rows, docs[k].id)].themes_json.value :
                         rows[RowOfId(rows, docs[k].id)].themes_json.value[t].name = theme
             /\ \A a, b \in DOMAIN docs : a < b => rank(a) < rank(b)
             /\ result.total_evidence_count
                  = SumSeq([k \in DOMAIN docs |-> Len(docs[k].evidence)])

\* a search with limit 1 has returned no document although the third document of the
\* listing holds the theme: the two candidates before it do not
C22_Witness ==
  /\ ThemesReturned
  /\ rd_failed = "none"
  /\ rd_args.theme = "pain-points"
  /\ rd_args.limit = Given(1)
  /\ ~rd_args.folder.given
  /\ rd_out.value[1].documents = <<>>
  /\ Len(documentsRows) = 3
  /\ \E k \in DOMAIN documentsRows :
        /\ ListingRank(documentsRows, rd_args.folder, k) = 2
        /\ \E t \in DOMAIN documentsRows[k].themes_json.value :
              documentsRows[k].themes_json.value[t].name = "pain-points"

\* the occurrences of the theme name in the theme lists of the stored documents
Occurrences(name) ==
  SumSeq([k \in DOMAIN documentsRows |->
            Len(SelectSeq(documentsRows[k].themes_json.value, LAMBDA t : t.name = name))])

\* the evidence items of those occurrences
EvidenceOf(name) ==
  SumSeq([k \in DOMAIN documentsRows |->
            SumSeq([t \in DOMAIN documentsRows[k].themes_json.value |->
                      IF documentsRows[k].themes_json.value[t].name = name
                      THEN Len(documentsRows[k].themes_json.value[t].evidence) ELSE 0])])

StatsReturned == rd_pc = "done" /\ rd_op = "getThemeStats" /\ rd_failed = "none"

\* C23: the map getThemeStats returned has, for each theme name that occurs in a
\* stored document, one entry whose document_count is the number of occurrences of
\* the name over all theme lists and whose total_quotes is the number of evidence
\* items of those occurrences, and no entry for any other name.
C23_ThemeStats ==
  StatsReturned =>
    LET stats == rd_out.value
    IN  /\ \A i, j \in DOMAIN stats : stats[i].name = stats[j].name => i = j
        /\ \A i \in DOMAIN stats :
              /\ Occurrences(stats[i].name) > 0
              /\ stats[i].document_count = Occurrences(stats[i].name)
              /\ stats[i].total_quotes = EvidenceOf(stats[i].name)
        /\ \A name \in {"pain-points", "pricing"} :
              Occurrences(name) > 0 => \E i \in DOMAIN stats : stats[i].name = name

\* one stored document names a theme twice: the entry counts 2 for that document,
\* with the evidence of both occurrences
C23_Witness ==
  /\ StatsReturned
  /\ Len(documentsRows) = 1
  /\ \E i \in DOMAIN rd_out.value :
        /\ rd_out.value[i].name = "pricing"
        /\ rd_out.value[i].document_count = 2
        /\ rd_out.value[i].total_quotes = 3

\* a run with extraction skipped has stored its rows
SkippedRunStored == run_pc = "done" /\ run_skip

\* C24: after a run with extraction skipped every stored document has no themes,
\* no key quotes and the first 500 characters of its notes body as insights_summary,
\* and a run that stored one document stored exactly one chunk, its summary chunk.
C24_SkipExtraction ==
  SkippedRunStored =>
    /\ \A k \in DOMAIN documentsRows :
          /\ documentsRows[k].themes = <<>>
          /\ documentsRows[k].key_quotes = <<>>
          /\ documentsRows[k].insights_summary
               = Substring(documentsRows[k].granola_summary, DefaultSummaryLen)
    /\ Len(documentsRows) = 1 =>
          /\ Len(chunksRows) = 1
          /\ chunksRows[1].type = "summary"
          /\ chunksRows[1].document_id = documentsRows[1].id

\* C25: without OPENAI_API_KEY a call of extractInsights or of generateEmbedding
\* has thrown the configuration error to its caller on entry: it made no attempt,
\* sent no request, caught no error and waited for no backoff.
C25_MissingKeyFailsAtOnce ==
  ~hasKey =>
    /\ ex_pc # "idle" =>
          /\ ex_pc = "thrown"
          /\ ex_lastError = MissingKeyError
          /\ ex_attempt = 0 /\ ex_log = <<>> /\ ex_errors = <<>>
          /\ ex_result = NoInsights
    /\ em_pc # "idle" =>
          /\ em_pc = "thrown"
          /\ em_thrown = MissingKeyError
          /\ em_attempt = 0 /\ em_log = <<>> /\ em_errors = <<>>
          /\ em_result = NoVector

\* generateEmbedding was called without the key and has thrown
C25_Witness == ~hasKey /\ em_pc = "thrown" /\ em_thrown = MissingKeyError

ListingReturned == rd_pc = "done" /\ rd_op = "getAllDocuments" /\ rd_failed = "none"

\* C26: the list getAllDocuments returned holds every stored document that passes
\* the folder filter (every document when no folder is given) exactly once, holds
\* nothing else, and no document in it is followed by one created later.
C26_AllDocumentsByDate ==
  ListingReturned =>
    LET docs == rd_out.value
        rows == documentsRows
    IN  /\ \A j \in DOMAIN rows :
              Cardinality({ k \in DOMAIN docs : docs[k].id = rows[j].id })
                = IF PassesFolder(rows[j], rd_args.folder) THEN 1 ELSE 0
        /\ \A k \in DOMAIN docs : \E j \in DOMAIN rows : rows[j].id = docs[k].id
        /\ \A a, b \in DOMAIN docs : a < b => docs[a].created_at >= docs[b].created_at

\* of three stored documents the folder filter removed one, and the two returned
\* stand in the opposite of their table order
C26_Witness ==
  /\ ListingReturned
  /\ rd_args.folder.given /\ rd_args.folder.value # <<>>
  /\ Len(documentsRows) = 3
  /\ Len(rd_out.value) = 2
  /\ rd_out.value[1].created_at > rd_out.value[2].created_at
  /\ RowOfId(documentsRows, rd_out.value[1].id) > RowOfId(documentsRows, rd_out.value[2].id)

\* the window of a document: its position counted from 0, divided by the concurrency
WindowIndex(p) == (p - 1) \div eb_concurrency

\* C27: at every moment of extractInsightsBatch at most `concurrency` extractInsights
\* calls are in flight, no call of a later window has been issued while a call of an
\* earlier window has not completed, and when the batch has returned the Map holds
\* an entry for the id of every input document.
C27_WindowedExtraction ==
  /\ Cardinality({ p \in DOMAIN eb_calls : eb_calls[p] = "inflight" }) <= eb_concurrency
  /\ \A p, q \in DOMAIN eb_calls :
        (WindowIndex(p) < WindowIndex(q) /\ eb_calls[q] # "waiting") => eb_calls[p] = "done"
  /\ eb_pc = "returned" =>
        \A p \in DOMAIN eb_docs :
          \E e \in DOMAIN eb_results :
            eb_results[e].id = eb_docs[p] /\ eb_results[e].insights # NoInsights

\* four documents at the default concurrency: the fourth call is in flight, alone,
\* after the three of the first window have completed and the delay was taken
C27_Witness ==
  /\ eb_pc = "await"
  /\ Len(eb_docs) = 4
  /\ eb_concurrency = DefaultConcurrency
  /\ eb_calls = <<"done", "done", "done", "inflight">>
  /\ eb_log = << Wait(WindowDelayMs) >>
  /\ Len(eb_results) = 2

\* C28: in every interleaving of callers the store connection has been opened at
\* most once and each OpenAI client constructed at most once, and the calls have
\* returned one connection and, per module, one client.
C28_Singletons ==
  /\ sg_opened <= 1
  /\ Cardinality(sg_returned) <= 1
  /\ \A m \in ClientModules : sg_built[m] <= 1 /\ Cardinality(sg_clients[m]) <= 1

ChunksReturned == rd_pc = "done" /\ rd_op = "searchChunks" /\ rd_failed = "none"

ChunkLimit == IF rd_args.limit.given THEN rd_args.limit.value ELSE 20

ChunkDistance(row) == (row.vector - rd_args.queryVector) * (row.vector - rd_args.queryVector)

SameChunk(a, b) == a.id = b.id /\ a.vector = b.vector

\* the pool is the 2 * limit nearest chunks of the table, nearest first
ChunkPoolIsNearest ==
  /\ Len(rd_fetched) = IF Len(chunksRows) < 2 * ChunkLimit THEN Len(chunksRows) ELSE 2 * ChunkLimit
  /\ \A a, b \in DOMAIN rd_fetched :
        a < b => /\ ChunkDistance(rd_fetched[a]) <= ChunkDistance(rd_fetched[b])
                 /\ ~SameChunk(rd_fetched[a], rd_fetched[b])
  /\ \A a \in DOMAIN rd_fetched :
        /\ \E k \in DOMAIN chunksRows : SameChunk(chunksRows[k], rd_fetched[a])
        /\ \A k \in DOMAIN chunksRows :
              (\A b \in DOMAIN rd_fetched : ~SameChunk(rd_fetched[b], chunksRows[k]))
                 => ChunkDistance(rd_fetched[a]) <= ChunkDistance(chunksRows[k])

\* the hits are the first `limit` of the given rows, in their order
FirstOfPool(hits, kept) ==
  /\ Len(hits) = (IF Len(kept) < ChunkLimit THEN Len(kept) ELSE ChunkLimit)
  /\ \A k \in DOMAIN hits :
        /\ hits[k].id = kept[k].id
        /\ hits[k].type = kept[k].type
        /\ hits[k].theme_name = kept[k].theme_name
        /\ hits[k].score = << 1, 1 + ChunkDistance(kept[k]) >>

\* C29 as stated: the hits are the first `limit` rows of the pool whose type is the
\* type argument and whose theme_name is the themeName argument, each test applied
\* whenever the argument is given.
C29_ChunkFilterAnyArgument ==
  ChunksReturned =>
    /\ ChunkPoolIsNearest
    /\ FirstOfPool(rd_out.value,
                   SelectSeq(rd_fetched,
                             LAMBDA row : /\ rd_args.type.given => row.type = rd_args.type.value
                                          /\ rd_args.themeName.given
                                               => row.theme_name = rd_args.themeName.value))

\* C29: the hits are the first `limit` rows, in ranking order, of the pool of the
\* 2 * limit nearest chunks whose type is the type argument, when one is given, and
\* whose theme_name is the themeName argument, when one is given and not the empty
\* string; so never more than `limit` rows and none from outside the pool.
C29_ChunkFilter ==
  ChunksReturned =>
    /\ ChunkPoolIsNearest
    /\ FirstOfPool(rd_out.value,
                   SelectSeq(rd_fetched,
                             LAMBDA row : /\ rd_args.type.given => row.type = rd_args.type.value
                                          /\ (rd_args.themeName.given /\ rd_args.themeName.value # "")
                                               => row.theme_name = rd_args.themeName.value))
    /\ Len(rd_out.value) <= ChunkLimit

\* a search with limit 1 for a theme name: the nearest chunk of the pool of 2 does
\* not carry it, the second does and is the hit, and a chunk of the table outside
\* the pool carries it too
C29_Witness ==
  /\ ChunksReturned
  /\ rd_args.limit = Given(1)
  /\ rd_args.themeName = Given("pain-points")
  /\ Len(rd_fetched) = 2
  /\ rd_fetched[1].theme_name # "pain-points"
  /\ Len(rd_out.value) = 1
  /\ rd_out.value[1].id = rd_fetched[2].id
  /\ \E k \in DOMAIN chunksRows :
        /\ chunksRows[k].theme_name = "pain-points"
        /\ \A b \in DOMAIN rd_fetched : ~SameChunk(rd_fetched[b], chunksRows[k])

\* C30: in every state of an indexing run, which is what a reader in another
\* process can see, every row of the chunks table has the id of a row of the
\* documents table as its document_id.
C30_ChunksHaveDocuments ==
  \A k \in DOMAIN chunksRows :
     \E j \in DOMAIN documentsRows : documentsRows[j].id = chunksRows[k].document_id

=============================================================================
